---- MODULE Spec2Model ----
(***************************************************************************)
(* A model of the AJS helper's analysis core:                              *)
(*   - ajs_rel_logic.py    relation-dump parsing, need-set computation,    *)
(*                         arc re-linking                                  *)
(*   - ajs_depend_logic.py reverse producer trace                          *)
(*   - ajs_inout_logic.py  shared-script (comenv) replay, shell replay     *)
(*                                                                         *)
(* Python strings are modelled as sequences of one-character strings, so   *)
(* that the string operations of the code (strip, split, join, replace,    *)
(* startswith, the regular expressions) are computed and not assumed.      *)
(***************************************************************************)
EXTENDS Integers, Sequences, FiniteSets, TLC

(***************************************************************************)
(* String helpers (Python str methods on character sequences)              *)
(***************************************************************************)
RECURSIVE LStrip(_, _)
LStrip(s, c) ==
    IF s # <<>> /\ Head(s) = c THEN LStrip(Tail(s), c) ELSE s

RECURSIVE RStrip(_, _)
RStrip(s, c) ==
    IF s # <<>> /\ s[Len(s)] = c THEN RStrip(SubSeq(s, 1, Len(s) - 1), c) ELSE s

Strip(s, c) == RStrip(LStrip(s, c), c)

StartsWith(s, p) == Len(p) <= Len(s) /\ SubSeq(s, 1, Len(p)) = p

Contains(s, c) == \E i \in 1..Len(s) : s[i] = c

\* s.split(c): "a//b" gives <<"a", "", "b">>, "" gives <<"">>
RECURSIVE SplitAcc(_, _, _, _)
SplitAcc(s, c, cur, acc) ==
    IF s = <<>> THEN Append(acc, cur)
    ELSE IF Head(s) = c THEN SplitAcc(Tail(s), c, <<>>, Append(acc, cur))
    ELSE SplitAcc(Tail(s), c, Append(cur, Head(s)), acc)

Split(s, c) == SplitAcc(s, c, <<>>, <<>>)

\* c.join(parts)
RECURSIVE Join(_, _)
Join(parts, c) ==
    IF parts = <<>> THEN <<>>
    ELSE IF Len(parts) = 1 THEN parts[1]
    ELSE parts[1] \o <<c>> \o Join(Tail(parts), c)

\* s.replace("//", "/"): non-overlapping, left to right
RECURSIVE ReplaceSlashes(_)
ReplaceSlashes(s) ==
    IF Len(s) < 2 THEN s
    ELSE IF s[1] = "/" /\ s[2] = "/" THEN <<"/">> \o ReplaceSlashes(SubSeq(s, 3, Len(s)))
    ELSE <<s[1]>> \o ReplaceSlashes(Tail(s))

\* os.path.basename(p): what follows the last slash
BaseName(p) == LET parts == Split(p, "/") IN parts[Len(parts)]

\* the elements of a sequence
Range(s) == {s[i] : i \in 1..Len(s)}

\* a sequence listing the elements of a sequence once, first occurrences kept
RECURSIVE Dedup(_)
Dedup(s) ==
    IF s = <<>> THEN <<>>
    ELSE LET r == Dedup(SubSeq(s, 1, Len(s) - 1))
         IN IF s[Len(s)] \in Range(r) THEN r ELSE Append(r, s[Len(s)])

\* a string literal as the sequence of its characters
Chars(s) == [i \in 1..Len(s) |-> SubSeq(s, i, i)]

\* the grave accent, a character the texts of the model name by a token
Backtick == "backtick"

Letters == Range(Chars("abcdefghijklmnopqrstuvwxyzABCDEFGHIJKLMNOPQRSTUVWXYZ_"))
Digits == Range(Chars("0123456789"))
\* the characters matched by [a-zA-Z0-9_]
WordChars == Letters \cup Digits

(***************************************************************************)
(* Paths used as inputs of the graph engine                                *)
(***************************************************************************)
pRoot == <<"/">>
pR    == <<"/", "R">>
pG    == <<"/", "G">>
pGA   == <<"/", "G", "/", "A">>
pGB   == <<"/", "G", "/", "B">>
pGC   == <<"/", "G", "/", "C">>
pGD   == <<"/", "G", "/", "D">>
pGBA  == <<"/", "G", "/", "B", "/", "A">>
pGBC  == <<"/", "G", "/", "B", "/", "C">>

nA == <<"A">>
nB == <<"B">>
nC == <<"C">>
nD == <<"D">>
nDash == <<"-">>
nSeq == <<"s">>

(***************************************************************************)
(* State                                                                   *)
(***************************************************************************)
VARIABLES
    base,        \* base_path_for_norm: the prefix pre_normalize removes
    gNodes,      \* G.nodes, in insertion order
    gEdges,      \* G.edges as <<from, to>>, in insertion order
    curParent,   \* pre_parse_graph: current_parent (<<>> is None or "")
    nParsed,     \* number of relation-dump lines consumed so far
    rphase,      \* position of the predecessor run
    target,      \* pre_compute_need: target
    need,        \* pre_compute_need: need
    q,           \* pre_compute_need: the worklist of <<path, origin>>
    needLog      \* the need.add calls so far, as <<path, origin>>, in order

relVars == <<base, gNodes, gEdges, curParent, nParsed, rphase, target, need, q, needLog>>

VARIABLES
    arParent,    \* pre_filter_definition: parent_path of the arc line met
    arSiblings,  \* generate_ar_lines: siblings (hierarchy_map[parent_path])
    arLines      \* generate_ar_lines: lines, as <<from name, to name>>

arcVars == <<arParent, arSiblings, arLines>>

VARIABLES
    dphase,           \* position of the dependency run
    target_files,     \* dep_start_job: target_files
    final_records,    \* analyze_ajs_jobs: final_records
    producer_map,     \* dep_start_job: producer_map
    dqueue,           \* dep_start_job: queue
    visited_files,    \* dep_start_job: visited_files
    needed_units,     \* dep_start_job: needed_units_full
    external_inputs,  \* dep_start_job: external_inputs
    dequeued,         \* the files popped from the queue so far, in order
    added_units       \* the needed_units_full.add calls so far, in order

depVars == <<dphase, target_files, final_records, producer_map, dqueue,
             visited_files, needed_units, external_inputs, dequeued, added_units>>

VARIABLES
    ephase,           \* position of the I/O analysis
    comenv_lines,     \* ComenvParser.lines
    initial_vars,     \* ComenvParser.initial_vars
    scan,             \* parse_all_patterns: current_case_var, case_vars_order, case_patterns
    pos,              \* parse_all_patterns: index of the line the loop is at
    combinations,     \* parse_all_patterns: all_combinations
    combo,            \* parse_all_patterns: index of the combination replayed
    master_var_dict,  \* ComenvParser.master_var_dict
    replay,           \* parse_all_patterns: the locals of the replay loop
    ajs_record,       \* analyze_ajs_jobs: the record processed (env, param, script)
    unit_var_dict,    \* analyze_ajs_jobs: var_dict
    procedures,       \* ShellParser.procedures of the record's script
    exec,             \* ShellExecutor: shell_context, inputs, outputs, unresolved
    procPos           \* ShellExecutor.execute: index of the procedure the loop is at

envVars == <<ephase, comenv_lines, initial_vars, scan, pos, combinations, combo,
             master_var_dict, replay, ajs_record, unit_var_dict, procedures, exec, procPos>>

VARIABLES
    def_lines,       \* pre_filter_definition: txt.splitlines()
    withGraph,       \* pre_filter_definition: G is not None
    fphase,          \* position of the filter
    fpos,            \* pre_filter_definition: index of the line the loop is at
    out,             \* pre_filter_definition: out
    outAt,           \* for each line of out, the input line that produced it
    stack,           \* pre_filter_definition: stack of <<indent, name>>
    skip,            \* pre_filter_definition: skip
    sk_ind,          \* pre_filter_definition: sk_ind (-1 is None)
    depth,           \* pre_filter_definition: depth
    ar_written_map   \* pre_filter_definition: the parents in ar_written_map

filVars == <<def_lines, withGraph, fphase, fpos, out, outAt, stack, skip, sk_ind,
             depth, ar_written_map>>

VARIABLES
    pc,                \* position of the run in its handler
    gui_vars,          \* the inputs of the run, as the handlers read them
    call,              \* analyze_ajs_jobs: use_cache, current_key and where it returns to
    ANALYSIS_CACHE,    \* _ANALYSIS_CACHE
    trace,             \* the remote and parsing steps of the run so far, in order
    raised,            \* the exception on its way to the handler's except clause
    reported,          \* what the run told the caller: show_error or show_info
    ajs_mapping_list,  \* analyze_ajs_jobs: ajs_mapping_list
    shell_cache,       \* analyze_ajs_jobs: shell_cache
    anl_records,       \* analyze_ajs_jobs: final_records, while it is built
    returned,          \* the final_records analyze_ajs_jobs returned to the handler
    notices,           \* the show_info and show_error calls of the run, in order
    status_var,        \* status_var of the window, as update_status last set it
    threads            \* the handlers running on background threads, by handler

runVars == <<pc, gui_vars, call, ANALYSIS_CACHE, trace, raised, reported,
             ajs_mapping_list, shell_cache, anl_records, returned, notices, status_var,
             threads>>

vars == <<relVars, arcVars, depVars, envVars, filVars, runVars>>

(***************************************************************************)
(* ajs_rel_logic.py: pre_normalize                                         *)
(***************************************************************************)
\* length of the longest prefix of s made of word characters
RECURSIVE WordRun(_)
WordRun(s) ==
    IF s # <<>> /\ Head(s) \in WordChars THEN 1 + WordRun(Tail(s)) ELSE 0

\* re.sub(r'^[a-zA-Z0-9_]+:', '', p)
StripQualifier(p) ==
    LET k == WordRun(p)
    IN IF k >= 1 /\ k < Len(p) /\ p[k + 1] = ":" THEN SubSeq(p, k + 2, Len(p)) ELSE p

pre_normalize(path, b) ==
    LET p == StripQualifier(Strip(path, " "))
    IN IF b # <<>> /\ b # <<"/">> /\ StartsWith(p, b)
       THEN SubSeq(p, Len(b) + 1, Len(p))
       ELSE p

(***************************************************************************)
(* ajs_rel_logic.py: pre_parse_graph                                       *)
(***************************************************************************)
\* nx.DiGraph.add_node / add_edge: insertion order kept, no duplicates
AddNode(nodes, n) == IF n \in Range(nodes) THEN nodes ELSE Append(nodes, n)
AddEdge(edges, u, v) == IF <<u, v>> \in Range(edges) THEN edges ELSE Append(edges, <<u, v>>)

join_path(parent, child) == ReplaceSlashes(RStrip(parent, "/") \o <<"/">> \o child)

\* parts = [s.strip() for s in rels_str.split(',') if s.strip()]
RelParts(cells) ==
    LET stripped == [i \in 1..Len(cells) |-> Strip(cells[i], " ")]
    IN SelectSeq(stripped, LAMBDA c : c # <<>>)

\* the loop with range(0, len(parts) - 2, 3): complete triples only
RECURSIVE AddCompleteTriples(_, _, _, _)
AddCompleteTriples(g, parent, parts, i) ==
    IF i >= Len(parts) - 2 THEN g
    ELSE LET from_name == parts[i + 1]
             to_name == parts[i + 2]
             from_path == ReplaceSlashes(RStrip(parent, "/") \o <<"/">> \o from_name)
             to_path == ReplaceSlashes(RStrip(parent, "/") \o <<"/">> \o to_name)
         IN IF from_name = <<"-">> \/ to_name = <<"-">>
            THEN AddCompleteTriples(g, parent, parts, i + 3)
            ELSE AddCompleteTriples(
                    [nodes |-> LET n1 == IF from_path \in Range(g.nodes) THEN g.nodes
                                         ELSE Append(g.nodes, from_path)
                               IN IF to_path \in Range(n1) THEN n1 ELSE Append(n1, to_path),
                     edges |-> IF <<from_path, to_path>> \in Range(g.edges) THEN g.edges
                               ELSE Append(g.edges, <<from_path, to_path>>)],
                    parent, parts, i + 3)

\* for i in range(0, len(parts) - 1, 3): the graph after the triples from index i on
RECURSIVE AddTriples(_, _, _, _)
AddTriples(g, parent, parts, i) ==
    IF i >= Len(parts) - 1 THEN g
    ELSE LET from_name == parts[i + 1]
             to_name == parts[i + 2]
             from_path == join_path(parent, from_name)
             to_path == join_path(parent, to_name)
         IN IF from_name = <<"-">> \/ to_name = <<"-">>
            THEN AddTriples(g, parent, parts, i + 3)
            ELSE IF Strip(from_path, "/") # <<>> /\ Strip(to_path, "/") # <<>>
            THEN AddTriples([nodes |-> AddNode(AddNode(g.nodes, from_path), to_path),
                             edges |-> AddEdge(g.edges, from_path, to_path)],
                            parent, parts, i + 3)
            ELSE AddTriples(g, parent, parts, i + 3)

\* one iteration of "for ln in txt.splitlines()".  A line is
\* [hdr: cols[0] is a unit type and there are two columns or more,
\*  path: cols[1], cells: the relation cell split at its commas]
ParsedLine(g, parent, ln, b) ==
    LET cp == IF ln.hdr THEN pre_normalize(ln.path, b) ELSE parent
        nodes1 == IF ln.hdr /\ Strip(cp, "/") # <<>> THEN AddNode(g.nodes, cp) ELSE g.nodes
        g1 == [nodes |-> nodes1, edges |-> g.edges]
    IN [parent |-> cp,
        g |-> IF cp = <<>> \/ ln.cells = <<>> THEN g1
              ELSE AddTriples(g1, cp, RelParts(ln.cells), 0)]

(***************************************************************************)
(* ajs_rel_logic.py: pre_descendants, pre_compute_need                     *)
(***************************************************************************)
\* G.predecessors(n), in the order the edges were added
Predecessors(edges, n) ==
    LET into == SelectSeq(edges, LAMBDA e : e[2] = n)
    IN [i \in 1..Len(into) |-> into[i][1]]

\* G.successors(n), in the order the edges were added
Successors(edges, n) ==
    LET from == SelectSeq(edges, LAMBDA e : e[1] = n)
    IN [i \in 1..Len(from) |-> from[i][2]]

pre_descendants(nodes, n) ==
    LET prefix == RStrip(n, "/") \o <<"/">>
    IN SelectSeq(nodes, LAMBDA x : StartsWith(x, prefix) /\ x # n)

\* mutant: the ancestor is rebuilt without its leading slash
RECURSIVE AncestorListNoSlash(_)
AncestorListNoSlash(anc) ==
    IF Contains(Strip(anc, "/"), "/")
    THEN LET segs == Split(Strip(anc, "/"), "/")
             up == Join(SubSeq(segs, 1, Len(segs) - 1), "/")
         IN IF Strip(up, "/") = <<>> THEN <<>> ELSE <<up>> \o AncestorListNoSlash(up)
    ELSE <<>>

\* the "while '/' in anc.strip('/')" loop: the ancestors appended, in order
RECURSIVE AncestorList(_)
AncestorList(anc) ==
    IF Contains(Strip(anc, "/"), "/")
    THEN LET segs == Split(Strip(anc, "/"), "/")
             up == <<"/">> \o Join(SubSeq(segs, 1, Len(segs) - 1), "/")
         IN IF Strip(up, "/") = <<>> THEN <<>> ELSE <<up>> \o AncestorList(up)
    ELSE <<>>

\* mutant: a path that is no node of the graph is skipped instead of added
NeedSkipUnknown(nodes, needSet, n) ==
    Strip(n, "/") = <<>> \/ n \in needSet \/ n \notin Range(nodes)

\* mutant: a path already in the need-set is taken up again
NeedSkipBlank(nodes, needSet, n) == Strip(n, "/") = <<>>

\* "if not n.strip('/') or n in need: continue"
NeedSkip(nodes, needSet, n) == Strip(n, "/") = <<>> \/ n \in needSet

Tagged(paths, org) == [i \in 1..Len(paths) |-> <<paths[i], org>>]

\* mutant: descendants are expanded whatever the origin
NeedExpansionAllDesc(nodes, edges, n, org) ==
    Tagged(Predecessors(edges, n), "pre")
    \o Tagged(AncestorList(n), "par")
    \o Tagged(pre_descendants(nodes, n), "desc")

\* mutant: predecessors are expanded for the seed and predecessor origins only
NeedExpansionPreBySeed(nodes, edges, n, org) ==
    (IF org \in {"seed", "pre"} THEN Tagged(Predecessors(edges, n), "pre") ELSE <<>>)
    \o Tagged(AncestorList(n), "par")
    \o (IF org \in {"seed", "pre"} THEN Tagged(pre_descendants(nodes, n), "desc") ELSE <<>>)

\* what one included node n of origin org appends to the worklist
NeedExpansion(nodes, edges, n, org) ==
    Tagged(Predecessors(edges, n), "pre")
    \o Tagged(AncestorList(n), "par")
    \o (IF org \in {"seed", "pre"} THEN Tagged(pre_descendants(nodes, n), "desc") ELSE <<>>)

(***************************************************************************)
(* Inputs of the predecessor run                                           *)
(***************************************************************************)
MaxLines == 2

\* base_path_for_norm = os.path.dirname(ajs_root): "/" for a root of depth
\* one, "/R" for the root /R/G
Bases == {pRoot, pR}

\* the full name ajsprint gives the unit whose normalized path is p
Raw(b, p) == IF b = pRoot THEN p ELSE b \o p

Names == {nA, nB, nC}

\* relation cells: no triple, one triple, a triple with "-" in a slot, a
\* from/to pair whose tag is missing, a chain through a fourth unit D, and
\* two units that precede each other
CellMenu ==
    {<<>>}
    \cup {<<e[1], e[2], nSeq>> : e \in {x \in Names \X Names : x[1] # x[2]}}
    \cup {<<nA, nDash, nSeq>>, <<nDash, nB, nSeq>>}
    \cup {<<nA, nB, nSeq, nB, nC>>}
    \cup {<<nA, nB, nSeq, nB, nD, nSeq, nD, nC, nSeq>>}
    \cup {<<nB, nC, nSeq, nC, nB, nSeq>>}

GroupPaths == {pG, pGB}
JobPaths == {pGD}

LineMenu(b) ==
    {[hdr |-> TRUE, path |-> Raw(b, p), cells |-> c] : p \in GroupPaths, c \in CellMenu}
    \cup {[hdr |-> TRUE, path |-> Raw(b, p), cells |-> <<>>] : p \in JobPaths}
    \cup {[hdr |-> FALSE, path |-> <<>>, cells |-> c] : c \in CellMenu \ {<<>>}}

\* what the user may type as the target unit
TargetMenu(b) ==
    {Raw(b, p) : p \in {pG, pGA, pGB, pGC, pGBA, pGD}} \cup {pRoot, b}

(***************************************************************************)
(* The predecessor run: pre_parse_graph, then pre_compute_need             *)
(***************************************************************************)
InitRel ==
    /\ base \in Bases
    /\ gNodes = <<>>
    /\ gEdges = <<>>
    /\ curParent = <<>>
    /\ nParsed = 0
    /\ rphase = "parse"
    /\ target = <<>>
    /\ need = {}
    /\ q = <<>>
    /\ needLog = <<>>

\* no arc line has been met
IdleArc ==
    /\ arParent = <<>>
    /\ arSiblings = <<>>
    /\ arLines = <<>>

\* the file names of the dependency run; "" is an input resolved to nothing
\* or a blank line of the target box
FileNames == {"out.txt", "mid.txt", "ext.dat", ""}

\* no dependency run has started
IdleDep ==
    /\ dphase = "idle"
    /\ target_files = <<>>
    /\ final_records = <<>>
    /\ producer_map = [f \in FileNames |-> {}]
    /\ dqueue = <<>>
    /\ visited_files = {}
    /\ needed_units = {}
    /\ external_inputs = {}
    /\ dequeued = <<>>
    /\ added_units = <<>>

\* no definition is being filtered
IdleFil ==
    /\ def_lines = <<>>
    /\ withGraph = FALSE
    /\ fphase = "idle"
    /\ fpos = 1
    /\ out = <<>>
    /\ outAt = <<>>
    /\ stack = <<>>
    /\ skip = FALSE
    /\ sk_ind = -1
    /\ depth = 0
    /\ ar_written_map = {}

\* no run has been started
IdleRun ==
    /\ pc = "idle"
    /\ gui_vars = <<>>
    /\ call = <<>>
    /\ ANALYSIS_CACHE = <<>>
    /\ trace = <<>>
    /\ raised = <<>>
    /\ reported = <<>>
    /\ ajs_mapping_list = <<>>
    /\ shell_cache = <<>>
    /\ anl_records = <<>>
    /\ returned = <<>>
    /\ notices = <<>>
    /\ status_var = <<>>
    /\ threads = <<>>

\* no I/O analysis in progress
IdleEnv ==
    /\ ephase = "idle"
    /\ comenv_lines = << >>
    /\ initial_vars = << >>
    /\ scan = [current_case_var |-> << >>, case_vars_order |-> << >>, case_patterns |-> << >>]
    /\ pos = 1
    /\ combinations = << >>
    /\ combo = 1
    /\ master_var_dict = << >>
    /\ replay = << >>
    /\ ajs_record = << >>
    /\ unit_var_dict = << >>
    /\ procedures = << >>
    /\ exec = << >>
    /\ procPos = 1

InitNeed == InitRel /\ IdleArc /\ IdleDep /\ IdleEnv /\ IdleFil /\ IdleRun

\* pre_parse_graph: one line of the relation dump
ParseLine ==
    /\ rphase = "parse"
    /\ nParsed < MaxLines
    /\ \E ln \in LineMenu(base) :
         LET r == ParsedLine([nodes |-> gNodes, edges |-> gEdges], curParent, ln, base)
         IN /\ gNodes' = r.g.nodes
            /\ gEdges' = r.g.edges
            /\ curParent' = r.parent
    /\ nParsed' = nParsed + 1
    /\ UNCHANGED <<base, rphase, target, need, q, needLog>>
    /\ UNCHANGED <<arcVars, depVars, envVars, filVars, runVars>>

\* pre_start_job: need = pre_compute_need(G, pre_normalize(tgt_in, base)),
\* up to the first test of the while loop
StartNeed ==
    /\ rphase = "parse"
    /\ \E tgt_in \in TargetMenu(base) :
         /\ target' = pre_normalize(tgt_in, base)
         /\ q' = <<<<pre_normalize(tgt_in, base), "seed">>>>
    /\ need' = {}
    /\ needLog' = <<>>
    /\ rphase' = "need"
    /\ UNCHANGED <<base, gNodes, gEdges, curParent, nParsed>>
    /\ UNCHANGED <<arcVars, depVars, envVars, filVars, runVars>>

\* pre_compute_need: one iteration of "while q"
NeedStep ==
    /\ rphase = "need"
    /\ q # <<>>
    /\ LET n == q[Len(q)][1]
           org == q[Len(q)][2]
           rest == SubSeq(q, 1, Len(q) - 1)
       IN IF NeedSkip(gNodes, need, n)
          THEN /\ q' = rest
               /\ UNCHANGED <<gNodes, need, needLog>>
          ELSE /\ gNodes' = AddNode(gNodes, n)
               /\ need' = need \cup {n}
               /\ needLog' = Append(needLog, <<n, org>>)
               /\ q' = rest \o NeedExpansion(AddNode(gNodes, n), gEdges, n, org)
    /\ UNCHANGED <<base, gEdges, curParent, nParsed, rphase, target>>
    /\ UNCHANGED <<arcVars, depVars, envVars, filVars, runVars>>

\* pre_compute_need has returned
NeedDone == rphase = "need" /\ q = <<>>

NextNeed == ParseLine \/ StartNeed \/ NeedStep

SpecNeed == InitNeed /\ [][NextNeed]_vars

(***************************************************************************)
(* Properties of the need-set                                              *)
(***************************************************************************)
\* the segments of a path
Segments(n) == SelectSeq(Split(n, "/"), LAMBDA x : x # <<>>)

\* the path made of the first k segments
PathOf(segs, k) == <<"/">> \o Join(SubSeq(segs, 1, k), "/")

\* every path obtained from n by stripping last segments, down to the first level
HierAncestors(n) == {PathOf(Segments(n), k) : k \in 1..(Len(Segments(n)) - 1)}

\* n is a direct child of P
IsChildOf(n, P) ==
    /\ Len(Segments(n)) = Len(Segments(P)) + 1
    /\ n = PathOf(Segments(n), Len(Segments(n)))
    /\ PathOf(Segments(n), Len(Segments(P))) = P

\* the nodes from which a path of one edge or more leads into S
RECURSIVE BackClosure(_, _)
BackClosure(edges, S) ==
    LET S2 == S \cup {e[1] : e \in {x \in Range(edges) : x[2] \in S}}
    IN IF S2 = S THEN S ELSE BackClosure(edges, S2)

PathPreds(edges, t) == BackClosure(edges, {e[1] : e \in {x \in Range(edges) : x[2] = t}})

\* every edge of the graph joins two children of P
EdgesUnder(P) == \A e \in Range(gEdges) : IsChildOf(e[1], P) /\ IsChildOf(e[2], P)

C2_AncestorsInNeed ==
    NeedDone => \A n \in need \ {target} : HierAncestors(n) \subseteq need

C2_Witness ==
    NeedDone /\ target = pGBA /\ pGBC \in need /\ pGB \in need /\ pG \in need

\* C3: in a graph whose triples all lie under one parent P, need-set(P/x) is
\* P/x, the siblings with a precedence path to P/x, P and the ancestors of P,
\* and nothing else; triples (A,B),(B,C) under /G give
\* need-set(/G/C) = {/G/C, /G/B, /G/A, /G}, without the sibling /G/D.
C3_SingleParentNeed ==
    NeedDone =>
      /\ \A P \in GroupPaths :
           (EdgesUnder(P) /\ IsChildOf(target, P)) =>
             need = {target} \cup PathPreds(gEdges, target) \cup {P} \cup HierAncestors(P)
      /\ (gEdges = <<<<pGA, pGB>>, <<pGB, pGC>>>> /\ target = pGC) =>
             (need = {pGC, pGB, pGA, pG} /\ pGD \notin need)

C3_Witness ==
    /\ NeedDone
    /\ gEdges = <<<<pGA, pGB>>, <<pGB, pGC>>>>
    /\ target = pGC
    /\ pGD \in Range(gNodes)
    /\ need = {pGC, pGB, pGA, pG}

\* C4: need-set(t) is closed under graph predecessors, whatever origin a node
\* was included with.
C4_PredecessorClosed ==
    NeedDone => \A n \in need : Range(Predecessors(gEdges, n)) \subseteq need

\* a node included as an ancestor has a predecessor
C4_Witness ==
    /\ NeedDone
    /\ \E i \in 1..Len(needLog) :
         /\ needLog[i][2] = "par"
         /\ Predecessors(gEdges, needLog[i][1]) # <<>>
         /\ Range(Predecessors(gEdges, needLog[i][1])) \subseteq need

(***************************************************************************)
(* ajs_rel_logic.py: find_bridged_successors, generate_ar_lines,           *)
(* build_hierarchy_map                                                     *)
(***************************************************************************)
\* mutant: a successor that is no retained sibling is dropped, not enqueued
BfsVisitDirectOnly(valid, st, succ) ==
    IF succ \in st.visited THEN st
    ELSE IF succ \in valid
    THEN [queue |-> st.queue, visited |-> st.visited \cup {succ},
          targets |-> Append(st.targets, succ)]
    ELSE [queue |-> st.queue, visited |-> st.visited \cup {succ},
          targets |-> st.targets]

\* mutant: once a retained sibling has been found, no other one is recorded
BfsVisitNearestOnly(valid, st, succ) ==
    IF succ \in st.visited THEN st
    ELSE IF succ \in valid
    THEN [queue |-> st.queue, visited |-> st.visited \cup {succ},
          targets |-> IF st.targets = <<>> THEN <<succ>> ELSE st.targets]
    ELSE [queue |-> Append(st.queue, succ), visited |-> st.visited \cup {succ},
          targets |-> st.targets]

\* the body of "for succ in G.successors(curr)".  targets is a Python set; the
\* model keeps its elements in the order they were added.
BfsVisit(valid, st, succ) ==
    IF succ \in st.visited THEN st
    ELSE IF succ \in valid
    THEN [queue |-> st.queue, visited |-> st.visited \cup {succ},
          targets |-> Append(st.targets, succ)]
    ELSE [queue |-> Append(st.queue, succ), visited |-> st.visited \cup {succ},
          targets |-> st.targets]

RECURSIVE BfsVisitAll(_, _, _)
BfsVisitAll(valid, st, succs) ==
    IF succs = <<>> THEN st
    ELSE BfsVisitAll(valid, BfsVisit(valid, st, Head(succs)), Tail(succs))

\* "while queue": curr = queue.pop(0)
RECURSIVE BfsLoop(_, _, _, _)
BfsLoop(nodes, edges, valid, st) ==
    IF st.queue = <<>> THEN st.targets
    ELSE LET curr == Head(st.queue)
             st1 == [queue |-> Tail(st.queue), visited |-> st.visited,
                     targets |-> st.targets]
         IN IF curr \notin Range(nodes)
            THEN BfsLoop(nodes, edges, valid, st1)
            ELSE BfsLoop(nodes, edges, valid,
                         BfsVisitAll(valid, st1, Successors(edges, curr)))

\* a search that does not mark the node it starts from
find_bridged_successors_unmarked(nodes, edges, start_node, valid_siblings) ==
    BfsLoop(nodes, edges, valid_siblings,
            [queue |-> <<start_node>>, visited |-> {}, targets |-> <<>>])

find_bridged_successors(nodes, edges, start_node, valid_siblings) ==
    BfsLoop(nodes, edges, valid_siblings,
            [queue |-> <<start_node>>, visited |-> {start_node}, targets |-> <<>>])

\* f"{parent_path}/{s}".replace("//", "/")
SiblingPath(parent_path, s) == ReplaceSlashes(parent_path \o <<"/">> \o s)

\* the second "for s in siblings" loop of generate_ar_lines, from sibling i on
RECURSIVE ArLinesFrom(_, _, _, _, _)
ArLinesFrom(nodes, edges, siblings, parent_path, i) ==
    IF i > Len(siblings) THEN <<>>
    ELSE LET s == siblings[i]
             start_node == SiblingPath(parent_path, s)
             valid == {SiblingPath(parent_path, siblings[k]) : k \in 1..Len(siblings)}
             next == find_bridged_successors(nodes, edges, start_node, valid)
             rest == ArLinesFrom(nodes, edges, siblings, parent_path, i + 1)
         IN IF start_node \notin Range(nodes) THEN rest
            ELSE [k \in 1..Len(next) |-> <<s, BaseName(next[k])>>] \o rest

generate_ar_lines(nodes, edges, siblings, parent_path) ==
    ArLinesFrom(nodes, edges, siblings, parent_path, 1)

\* os.path.dirname
DirName(p) ==
    LET slashes == {i \in 1..Len(p) : p[i] = "/"}
        i == IF slashes = {} THEN 0 ELSE CHOOSE k \in slashes : \A j \in slashes : j <= k
        head == SubSeq(p, 1, i)
    IN IF head # <<>> /\ Strip(head, "/") # <<>> THEN RStrip(head, "/") ELSE head

\* build_hierarchy_map(need_set)[parent_dir], as a set: the order of the list
\* is the iteration order of the need-set
HierarchyChildren(need_set, parent_dir) ==
    {BaseName(p) : p \in {x \in need_set :
        /\ x # <<"/">>
        /\ (IF DirName(x) = <<"/">> THEN <<>> ELSE DirName(x)) = parent_dir}}

\* normalized_need = {p.rstrip('/') for p in need}
NormalizedNeed(needSet) == {RStrip(p, "/") : p \in needSet}

\* the lists in which a set can be iterated
Orders(S) ==
    {f \in [1..Cardinality(S) -> S] : \A i, j \in 1..Cardinality(S) : f[i] = f[j] => i = j}

(***************************************************************************)
(* Arc re-linking as pre_filter_definition runs it for the first arc line  *)
(* of a parent                                                             *)
(***************************************************************************)
\* add_parents / the ancestor rule: the need-sets handed to the filter hold
\* the ancestors of their members
AncestorClosed(S) == S \cup UNION {Range(AncestorList(p)) : p \in S}

\* the need-sets tried for parent P: P, its ancestors and any of its children
NeedMenu(P) == {AncestorClosed({P} \cup {SiblingPath(P, x) : x \in R}) : R \in SUBSET Names}

InitArc == InitRel /\ base = pRoot /\ IdleArc /\ IdleDep /\ IdleEnv /\ IdleFil /\ IdleRun

\* pre_filter_definition, lines 236-247: the first 'ar=' line of parent_path
RelinkArcs ==
    /\ rphase = "parse"
    /\ \E P \in GroupPaths : \E S \in NeedMenu(P) :
         LET children == HierarchyChildren(NormalizedNeed(S), P)
         IN /\ need' = S
            /\ arParent' = P
            /\ \E order \in Orders(children) :
                 /\ arSiblings' = order
                 /\ arLines' = IF children # {}
                                THEN generate_ar_lines(gNodes, gEdges, order, P)
                                ELSE <<>>
    /\ rphase' = "arcs"
    /\ UNCHANGED <<base, gNodes, gEdges, curParent, nParsed, target, q, needLog>>
    /\ UNCHANGED <<depVars, envVars, filVars, runVars>>

ArcsDone == rphase = "arcs"

NextArc == ParseLine \/ RelinkArcs

SpecArc == InitArc /\ [][NextArc]_vars

(***************************************************************************)
(* Properties of arc re-linking                                            *)
(***************************************************************************)
\* the nodes reached from S by a path of one edge or more
RECURSIVE FwdClosure(_, _)
FwdClosure(edges, S) ==
    LET S2 == S \cup {e[2] : e \in {x \in Range(edges) : x[1] \in S}}
    IN IF S2 = S THEN S ELSE FwdClosure(edges, S2)

GraphReach(edges, a) == FwdClosure(edges, {e[2] : e \in {x \in Range(edges) : x[1] = a}})

\* the nodes outside valid reached from s through nodes outside valid only
RECURSIVE TrimmedReach(_, _, _)
TrimmedReach(edges, valid, X) ==
    LET X2 == X \cup {e[2] : e \in {x \in Range(edges) : x[1] \in X /\ x[2] \notin valid}}
    IN IF X2 = X THEN X ELSE TrimmedReach(edges, valid, X2)

\* the full graph has a path from s to r whose interior nodes are all outside valid
BridgedPath(edges, valid, s, r) ==
    \E e \in Range(edges) :
        /\ e[2] = r
        /\ e[1] \in TrimmedReach(edges, valid \ {s}, {s})

RetainedSiblings == {SiblingPath(arParent, arSiblings[k]) : k \in 1..Len(arSiblings)}

ArcEdges == [k \in 1..Len(arLines) |->
                <<SiblingPath(arParent, arLines[k][1]), SiblingPath(arParent, arLines[k][2])>>]

\* C5: an arc (s, r) is emitted for two distinct retained siblings exactly when
\* the full graph has a path from s to r whose interior nodes are all
\* non-retained; retained {/G/A, /G/C} with chain A->B->C gives the one arc A->C.
C5_ArcIffBridgedPath ==
    ArcsDone =>
      /\ \A s \in RetainedSiblings : \A r \in RetainedSiblings \ {s} :
           (<<s, r>> \in Range(ArcEdges)) <=> BridgedPath(gEdges, RetainedSiblings, s, r)
      /\ (/\ arParent = pG
          /\ RetainedSiblings = {pGA, pGC}
          /\ gEdges = <<<<pGA, pGB>>, <<pGB, pGC>>>>) => arLines = <<<<nA, nC>>>>

C5_Witness ==
    /\ ArcsDone
    /\ arParent = pG
    /\ RetainedSiblings = {pGA, pGC}
    /\ gEdges = <<<<pGA, pGB>>, <<pGB, pGC>>>>
    /\ arLines = <<<<nA, nC>>>>

\* C6: for two retained siblings a and b, b is reachable from a through the
\* synthesized arcs exactly when b is reachable from a in the full graph.
C6_OrderPreserved ==
    ArcsDone =>
      \A a \in RetainedSiblings : \A b \in RetainedSiblings \ {a} :
          (b \in GraphReach(ArcEdges, a)) <=> (b \in GraphReach(gEdges, a))

\* b follows a only through a trimmed unit and through another retained one
C6_Witness ==
    /\ ArcsDone
    /\ RetainedSiblings = {pGA, pGB, pGC}
    /\ gEdges = <<<<pGA, pGB>>, <<pGB, pGC>>>>
    /\ pGC \in GraphReach(ArcEdges, pGA)
    /\ <<pGA, pGC>> \notin Range(ArcEdges)

(***************************************************************************)
(* ajs_depend_logic.py: dep_start_job, producer map and reverse trace      *)
(***************************************************************************)
MaxUnits == 2

UnitName(i) == IF i = 1 THEN "/U1" ELSE IF i = 2 THEN "/U2" ELSE IF i = 3 THEN "/U3" ELSE "/U4"

\* the inputs and outputs the I/O analysis may give a unit
InputMenu == {<<>>, <<"mid.txt">>, <<"ext.dat">>, <<"out.txt">>, <<"mid.txt", "ext.dat">>, <<"">>}
OutputMenu == {<<>>, <<"out.txt">>, <<"mid.txt">>, <<"out.txt", "mid.txt">>}

\* the lines of the target box, after f.strip()
TargetLinesMenu ==
    {<<>>, <<"">>, <<"out.txt">>, <<"mid.txt">>, <<"ext.dat">>,
     <<"out.txt", "", "mid.txt">>, <<"out.txt", "out.txt">>}

InitDep ==
    /\ InitRel /\ base = pRoot /\ IdleArc /\ IdleEnv /\ IdleFil /\ IdleRun
    /\ dphase = "start"
    /\ target_files = <<>>
    /\ final_records = <<>>
    /\ producer_map = [f \in FileNames |-> {}]
    /\ dqueue = <<>>
    /\ visited_files = {}
    /\ needed_units = {}
    /\ external_inputs = {}
    /\ dequeued = <<>>
    /\ added_units = <<>>

\* lines 97-103: the target box is read; no target is an error
DepReadTargets ==
    /\ dphase = "start"
    /\ \E lines \in TargetLinesMenu :
         LET files == SelectSeq(lines, LAMBDA f : f # "")
         IN /\ target_files' = files
            /\ dphase' = IF files = <<>> THEN "error" ELSE "analyze"
    /\ UNCHANGED <<final_records, producer_map, dqueue, visited_files,
                   needed_units, external_inputs, dequeued, added_units>>
    /\ UNCHANGED <<relVars, arcVars, envVars, filVars, runVars>>

\* analyze_ajs_jobs, lines 552-584: one unit's record is appended
DepAddRecord ==
    /\ dphase = "analyze"
    /\ Len(final_records) < MaxUnits
    /\ \E ins \in InputMenu, outs \in OutputMenu :
         final_records' = Append(final_records,
             [unit_full |-> UnitName(Len(final_records) + 1), inputs |-> ins, outputs |-> outs])
    /\ UNCHANGED <<dphase, target_files, producer_map, dqueue, visited_files,
                   needed_units, external_inputs, dequeued, added_units>>
    /\ UNCHANGED <<relVars, arcVars, envVars, filVars, runVars>>

\* lines 124-127
BuildProducerMap(records) ==
    [f \in FileNames |->
        {records[i].unit_full : i \in {k \in 1..Len(records) : f \in Range(records[k].outputs)}}]

\* lines 124-136: the producer map is built and the trace is set up
DepStartTrace ==
    /\ dphase = "analyze"
    /\ producer_map' = BuildProducerMap(final_records)
    /\ dqueue' = target_files
    /\ visited_files' = Range(target_files)
    /\ needed_units' = {}
    /\ external_inputs' = {}
    /\ dequeued' = <<>>
    /\ added_units' = <<>>
    /\ dphase' = "trace"
    /\ UNCHANGED <<target_files, final_records>>
    /\ UNCHANGED <<relVars, arcVars, envVars, filVars, runVars>>

\* next((r for r in final_records if r['unit_full'] == unit_full_path), None)
RECURSIVE FirstRecord(_, _, _)
FirstRecord(records, unit, i) ==
    IF i > Len(records) THEN [unit_full |-> "", inputs |-> <<>>, outputs |-> <<>>]
    ELSE IF records[i].unit_full = unit THEN records[i]
    ELSE FirstRecord(records, unit, i + 1)

\* mutant: an input is queued whether or not it was met before
RECURSIVE EnqueueInputsAgain(_, _)
EnqueueInputsAgain(st, inputs) ==
    IF inputs = <<>> THEN st
    ELSE LET f == Head(inputs)
         IN IF f # ""
            THEN EnqueueInputsAgain([st EXCEPT !.visited = @ \cup {f}, !.queue = Append(@, f)],
                                    Tail(inputs))
            ELSE EnqueueInputsAgain(st, Tail(inputs))

\* lines 156-159: "for input_file in record.get('inputs', [])"
RECURSIVE EnqueueInputs(_, _)
EnqueueInputs(st, inputs) ==
    IF inputs = <<>> THEN st
    ELSE LET f == Head(inputs)
         IN IF f # "" /\ f \notin st.visited
            THEN EnqueueInputs([st EXCEPT !.visited = @ \cup {f}, !.queue = Append(@, f)],
                               Tail(inputs))
            ELSE EnqueueInputs(st, Tail(inputs))

\* mutant: only the first declared input of a record is followed
ExpandProducerFirstInput(records, st, unit) ==
    IF unit \in st.needed THEN st
    ELSE LET ins == FirstRecord(records, unit, 1).inputs
         IN EnqueueInputs([st EXCEPT !.needed = @ \cup {unit}, !.added = Append(@, unit)],
                          IF ins = <<>> THEN <<>> ELSE <<Head(ins)>>)

\* lines 150-159: the body of "for unit_full_path in producers"
ExpandProducer(records, st, unit) ==
    IF unit \in st.needed THEN st
    ELSE EnqueueInputs([st EXCEPT !.needed = @ \cup {unit}, !.added = Append(@, unit)],
                       FirstRecord(records, unit, 1).inputs)

RECURSIVE ExpandProducers(_, _, _)
ExpandProducers(records, st, order) ==
    IF order = <<>> THEN st
    ELSE ExpandProducers(records, ExpandProducer(records, st, Head(order)), Tail(order))

\* mutant: the loop over the producers stops after the first of them
TraceFileFirstProducer(records, pm, st, current_file, order) ==
    IF pm[current_file] = {}
    THEN [st EXCEPT !.external = @ \cup {current_file}]
    ELSE ExpandProducers(records, st, <<Head(order)>>)

\* lines 142-159: the body of "while queue" after the popleft; order is the
\* order in which the set producers is iterated
TraceFile(records, pm, st, current_file, order) ==
    IF pm[current_file] = {}
    THEN [st EXCEPT !.external = @ \cup {current_file}]
    ELSE ExpandProducers(records, st, order)

\* one iteration of "while queue"
DepStep ==
    /\ dphase = "trace"
    /\ dqueue # <<>>
    /\ LET current_file == Head(dqueue)
           st0 == [queue |-> Tail(dqueue), visited |-> visited_files,
                   needed |-> needed_units, external |-> external_inputs,
                   added |-> added_units]
       IN \E order \in Orders(producer_map[current_file]) :
            LET st == TraceFile(final_records, producer_map, st0, current_file, order)
            IN /\ dqueue' = st.queue
               /\ visited_files' = st.visited
               /\ needed_units' = st.needed
               /\ external_inputs' = st.external
               /\ dequeued' = Append(dequeued, current_file)
               /\ added_units' = st.added
    /\ UNCHANGED <<dphase, target_files, final_records, producer_map>>
    /\ UNCHANGED <<relVars, arcVars, envVars, filVars, runVars>>

\* the trace has ended
DepDone == dphase = "trace" /\ dqueue = <<>>

NextDep == DepReadTargets \/ DepAddRecord \/ DepStartTrace \/ DepStep

SpecDep == InitDep /\ [][NextDep]_vars

(***************************************************************************)
(* Properties of the reverse producer trace                                *)
(***************************************************************************)
RecordsOf(units) == {final_records[i] : i \in {k \in 1..Len(final_records) :
                                                  final_records[k].unit_full \in units}}

\* the units with a declared output among files
ProducersOf(files) ==
    {final_records[i].unit_full : i \in {k \in 1..Len(final_records) :
                                           Range(final_records[k].outputs) \cap files # {}}}

\* the non-empty declared inputs of units
InputsOf(units) == UNION {Range(r.inputs) : r \in RecordsOf(units)} \ {""}

\* the backward closure of the targets: the least set of files that holds the
\* targets and the inputs of every producer of one of its files
RECURSIVE BackwardFiles(_)
BackwardFiles(files) ==
    LET more == files \cup InputsOf(ProducersOf(files))
    IN IF more = files THEN files ELSE BackwardFiles(more)

Unproduced(files) == {f \in files : ProducersOf({f}) = {}}

\* C7: when the trace ends, every file that is a target or a declared input of
\* an included unit and that has no producer is among the external inputs.
C7_UnproducedAreExternal ==
    DepDone =>
      \A f \in Range(target_files) \cup InputsOf(needed_units) :
          ProducersOf({f}) = {} => f \in external_inputs

\* an unproduced input reached through two units
C7_Witness ==
    /\ DepDone
    /\ needed_units = {"/U1", "/U2"}
    /\ "ext.dat" \in InputsOf(needed_units) \ Range(target_files)
    /\ "ext.dat" \in external_inputs

\* C8: the trace returns the backward closure of the targets: the needed units
\* are all the producers of the closure's files, the external inputs are the
\* closure's files without a producer; out.txt by /U1 from mid.txt, mid.txt by
\* /U2 from ext.dat gives units {/U1, /U2} and external inputs {ext.dat}.
C8_BackwardClosure ==
    DepDone =>
      /\ needed_units = ProducersOf(BackwardFiles(Range(target_files)))
      /\ external_inputs = Unproduced(BackwardFiles(Range(target_files)))
      /\ (/\ target_files = <<"out.txt">>
          /\ final_records =
               <<[unit_full |-> "/U1", inputs |-> <<"mid.txt">>, outputs |-> <<"out.txt">>],
                 [unit_full |-> "/U2", inputs |-> <<"ext.dat">>, outputs |-> <<"mid.txt">>]>>)
           => (needed_units = {"/U1", "/U2"} /\ external_inputs = {"ext.dat"})

C8_Witness ==
    /\ DepDone
    /\ target_files = <<"out.txt">>
    /\ final_records =
         <<[unit_full |-> "/U1", inputs |-> <<"mid.txt">>, outputs |-> <<"out.txt">>],
           [unit_full |-> "/U2", inputs |-> <<"ext.dat">>, outputs |-> <<"mid.txt">>]>>
    /\ needed_units = {"/U1", "/U2"}
    /\ external_inputs = {"ext.dat"}

(***************************************************************************)
(* ajs_inout_logic.py: character-level helpers of the variable resolver    *)
(***************************************************************************)
\* \s over the characters of a stripped line
WS == {" ", "\t"}

RECURSIVE LStripIn(_, _)
LStripIn(s, set) ==
    IF s # <<>> /\ Head(s) \in set THEN LStripIn(Tail(s), set) ELSE s

RECURSIVE RStripIn(_, _)
RStripIn(s, set) ==
    IF s # <<>> /\ s[Len(s)] \in set THEN RStripIn(SubSeq(s, 1, Len(s) - 1), set) ELSE s

\* str.strip() and str.strip(chars)
StripIn(s, set) == RStripIn(LStripIn(s, set), set)

EndsWith(s, p) == Len(p) <= Len(s) /\ SubSeq(s, Len(s) - Len(p) + 1, Len(s)) = p

\* the sub-string from position i to the end
From(s, i) == SubSeq(s, i, Len(s))

\* the length of the longest run of characters of set that starts at i
RECURSIVE RunLen(_, _, _)
RunLen(s, i, set) ==
    IF i <= Len(s) /\ s[i] \in set THEN 1 + RunLen(s, i + 1, set) ELSE 0

\* the length of the longest run of characters outside set that starts at i
RECURSIVE RunLenNot(_, _, _)
RunLenNot(s, i, set) ==
    IF i <= Len(s) /\ s[i] \notin set THEN 1 + RunLenNot(s, i + 1, set) ELSE 0

\* the first position from i on that holds c, 0 when there is none
RECURSIVE IndexFrom(_, _, _)
IndexFrom(s, i, c) ==
    IF i > Len(s) THEN 0
    ELSE IF s[i] = c THEN i
    ELSE IndexFrom(s, i + 1, c)

\* the first position from i on where p starts, 0 when there is none
RECURSIVE FindFrom(_, _, _)
FindFrom(s, i, p) ==
    IF i + Len(p) - 1 > Len(s) THEN 0
    ELSE IF SubSeq(s, i, i + Len(p) - 1) = p THEN i
    ELSE FindFrom(s, i + 1, p)

\* str.replace(p, "")
RECURSIVE Remove(_, _)
Remove(s, p) ==
    LET i == FindFrom(s, 1, p)
    IN IF i = 0 THEN s
       ELSE SubSeq(s, 1, i - 1) \o Remove(From(s, i + Len(p)), p)

\* str.split(c, 1)[0] and str.split(c, 1)[-1]
BeforeFirst(s, c) ==
    LET i == IndexFrom(s, 1, c) IN IF i = 0 THEN s ELSE SubSeq(s, 1, i - 1)

AfterFirst(s, c) ==
    LET i == IndexFrom(s, 1, c) IN IF i = 0 THEN s ELSE From(s, i + 1)

\* a dictionary is a function from keys to values
EmptyDict == << >>

DictGet(d, k, default) == IF k \in DOMAIN d THEN d[k] ELSE default

DictSet(d, k, v) == [x \in DOMAIN d \cup {k} |-> IF x = k THEN v ELSE d[x]]

\* dict.update(e)
DictUpdate(d, e) == [x \in DOMAIN d \cup DOMAIN e |-> IF x \in DOMAIN e THEN e[x] ELSE d[x]]

NoMatch == [len |-> 0, key |-> <<>>]

\* ALL_VAR_PAT at position i: the length of the match and the key it names
VarMatchAt(s, i) ==
    IF i >= Len(s) \/ s[i] # "$" THEN NoMatch
    ELSE IF s[i + 1] = "{"
         THEN LET j == IndexFrom(s, i + 2, "}")
              IN IF j > i + 2
                 THEN [len |-> j - i + 1, key |-> SubSeq(s, i + 2, j - 1)]
                 ELSE NoMatch
    ELSE IF s[i + 1] \in Letters
         THEN LET n == RunLen(s, i + 1, Letters \cup Digits)
              IN [len |-> n + 1, key |-> SubSeq(s, i + 1, i + n)]
    ELSE IF s[i + 1] \in Digits
         THEN LET n == RunLen(s, i + 1, Digits)
              IN [len |-> n + 1, key |-> SubSeq(s, i + 1, i + n)]
    ELSE NoMatch

\* ALL_VAR_PAT.findall(s): the keys of the matches, left to right
RECURSIVE FindAllFrom(_, _)
FindAllFrom(s, i) ==
    IF i > Len(s) THEN <<>>
    ELSE LET mt == VarMatchAt(s, i)
         IN IF mt.len = 0 THEN FindAllFrom(s, i + 1)
            ELSE <<mt.key>> \o FindAllFrom(s, i + mt.len)

\* a replacer that gives an unknown key the empty string
ReplacerOrEmpty(var_dict, s, i, mt) ==
    IF mt.key \in DOMAIN var_dict THEN var_dict[mt.key] ELSE <<>>

\* the replacer of a match: the value of a known key, else the match itself
Replacer(var_dict, s, i, mt) ==
    IF mt.key \in DOMAIN var_dict THEN var_dict[mt.key] ELSE SubSeq(s, i, i + mt.len - 1)

\* ALL_VAR_PAT.sub(replacer, s): one pass, replaced text is not scanned again
RECURSIVE SubFrom(_, _, _)
SubFrom(s, i, var_dict) ==
    IF i > Len(s) THEN <<>>
    ELSE LET mt == VarMatchAt(s, i)
         IN IF mt.len = 0 THEN <<s[i]>> \o SubFrom(s, i + 1, var_dict)
            ELSE Replacer(var_dict, s, i, mt) \o SubFrom(s, i + mt.len, var_dict)

Substitute(s, var_dict) == SubFrom(s, 1, var_dict)

MaxPasses == 10

\* the loop with one pass more than range(10) allows
RECURSIVE ResolveLoopOneMore(_, _, _)
ResolveLoopOneMore(value, var_dict, n) ==
    IF n < 0 THEN [value |-> value, capped |-> TRUE, passes |-> 0]
    ELSE LET new_value == Substitute(value, var_dict)
         IN IF new_value = value
            THEN [value |-> new_value, capped |-> FALSE, passes |-> 1]
            ELSE [ResolveLoopOneMore(new_value, var_dict, n - 1) EXCEPT !.passes = @ + 1]

\* the loop of ComenvParser._resolve_value with n passes left: the value,
\* whether every pass changed it, and the number of passes made
RECURSIVE ResolveLoop(_, _, _)
ResolveLoop(value, var_dict, n) ==
    IF n = 0 THEN [value |-> value, capped |-> TRUE, passes |-> 0]
    ELSE LET new_value == Substitute(value, var_dict)
         IN IF new_value = value
            THEN [value |-> new_value, capped |-> FALSE, passes |-> 1]
            ELSE [ResolveLoop(new_value, var_dict, n - 1) EXCEPT !.passes = @ + 1]

\* a single substitution pass in place of the loop
ResolveSinglePass(value, var_dict) ==
    [value |-> Substitute(value, var_dict), capped |-> FALSE, passes |-> 1]

Comenv_resolve(value, var_dict) ==
    IF ~Contains(value, "$") THEN [value |-> value, capped |-> FALSE, passes |-> 0]
    ELSE ResolveLoop(value, var_dict, MaxPasses)

Comenv_resolve_value(value, var_dict) == Comenv_resolve(value, var_dict).value

(***************************************************************************)
(* ajs_inout_logic.py: the regular expressions, matched as re matches them *)
(***************************************************************************)
Quotes == {"'", "\""}

SkipWS(s, i) == i + RunLen(s, i, WS)

At(s, i, c) == i <= Len(s) /\ s[i] = c

\* the first position from i on that holds a character of set, 0 when none
RECURSIVE IndexInFrom(_, _, _)
IndexInFrom(s, i, set) ==
    IF i > Len(s) THEN 0
    ELSE IF s[i] \in set THEN i
    ELSE IndexInFrom(s, i + 1, set)

NoKey == [ok |-> FALSE, key |-> <<>>]

\* CASE_VAR_PAT at position p: the case variable, group(2) or group(3)
CaseVarAt(s, p) ==
    IF ~StartsWith(From(s, p), Chars("case")) THEN NoKey
    ELSE LET a == SkipWS(s, p + 4)
             b == IF a <= Len(s) /\ s[a] \in Quotes THEN a + 1 ELSE a
             mt == VarMatchAt(s, b)
         IN IF mt.len = 0 \/ s[b + 1] \in Digits THEN NoKey
            ELSE [ok |-> TRUE, key |-> mt.key]

\* CASE_VAR_PAT.search(s)
RECURSIVE CaseVarSearchFrom(_, _)
CaseVarSearchFrom(s, p) ==
    IF p > Len(s) THEN NoKey
    ELSE IF CaseVarAt(s, p).ok THEN CaseVarAt(s, p)
    ELSE CaseVarSearchFrom(s, p + 1)

CaseVarSearch(s) == CaseVarSearchFrom(s, 1)

\* re.match(r'^\s*([^)\s]+)\s*\)', s): the branch pattern of a pattern line
PatternOf(line) ==
    LET s == LStripIn(line, WS)
        n == RunLenNot(s, 1, WS \cup {")"})
        k == SkipWS(s, n + 1)
    IN IF n >= 1 /\ At(s, k, ")")
       THEN [ok |-> TRUE, key |-> SubSeq(s, 1, n)]
       ELSE NoKey

NoIf == [ok |-> FALSE, key |-> <<>>, lit |-> <<>>]

\* the pattern of _evaluate_if_statement at position p
IfMatchAt(s, p) ==
    IF ~StartsWith(From(s, p), Chars("if")) THEN NoIf
    ELSE LET a == SkipWS(s, p + 2)
             b == SkipWS(s, a + 1)
             j == IndexFrom(s, b + 3, "}")
             c == SkipWS(s, j + 2)
             d == SkipWS(s, c + 1)
             k == IndexFrom(s, d + 1, "\"")
             e == SkipWS(s, k + 1)
         IN IF /\ At(s, a, "[")
               /\ At(s, b, "\"") /\ At(s, b + 1, "$") /\ At(s, b + 2, "{")
               /\ j > b + 3
               /\ At(s, j + 1, "\"")
               /\ At(s, c, "=")
               /\ At(s, d, "\"")
               /\ k > d + 1
               /\ At(s, e, "]")
            THEN [ok |-> TRUE, key |-> SubSeq(s, b + 3, j - 1), lit |-> SubSeq(s, d + 1, k - 1)]
            ELSE NoIf

RECURSIVE IfSearchFrom(_, _)
IfSearchFrom(s, p) ==
    IF p > Len(s) THEN NoIf
    ELSE IF IfMatchAt(s, p).ok THEN IfMatchAt(s, p)
    ELSE IfSearchFrom(s, p + 1)

evaluate_if_statement(line, current_vars) ==
    LET match == IfSearchFrom(line, 1)
    IN IF match.ok THEN DictGet(current_vars, match.key, <<>>) = match.lit
       ELSE TRUE

NoAssign == [ok |-> FALSE, name |-> <<>>, value |-> <<>>]

\* VAR_ASSIGN_PAT from the first character of the name on; value is group(3)
\* when the quoted alternative matched, group(2) otherwise
AssignFrom(s, i) ==
    LET n == RunLenNot(s, i, WS \cup {"="})
        e == SkipWS(s, i + n)
        v == SkipWS(s, e + 1)
        cq == IndexInFrom(s, v + 1, Quotes)
        m == RunLenNot(s, v, {" ", "\t", ";", "#"})
    IN IF n = 0 \/ ~At(s, e, "=") \/ v > Len(s) THEN NoAssign
       ELSE IF s[v] \in Quotes /\ cq > 0
            THEN [ok |-> TRUE, name |-> SubSeq(s, i, i + n - 1), value |-> SubSeq(s, v + 1, cq - 1)]
       ELSE IF m = 0 THEN NoAssign
       ELSE [ok |-> TRUE, name |-> SubSeq(s, i, i + n - 1), value |-> SubSeq(s, v, v + m - 1)]

\* VAR_ASSIGN_PAT.match(s)
VAR_ASSIGN_PAT(s) ==
    LET i == SkipWS(s, 1)
        w == RunLen(s, i + 6, WS)
        exported == IF StartsWith(From(s, i), Chars("export")) /\ w >= 1
                    THEN AssignFrom(s, i + 6 + w)
                    ELSE NoAssign
    IN IF exported.ok THEN exported ELSE AssignFrom(s, i)

\* RM_PAT.match(s): group(1)
RM_PAT(s) ==
    LET i == SkipWS(s, 1)
        w == RunLen(s, i + 2, WS)
        a == i + 2 + w
        f == RunLen(s, a + 2, WS)
    IN IF ~StartsWith(From(s, i), Chars("rm")) \/ w = 0 THEN NoKey
       ELSE IF StartsWith(From(s, a), Chars("-f")) /\ f >= 1
            THEN [ok |-> TRUE, key |-> From(s, a + 2 + f)]
       ELSE [ok |-> TRUE, key |-> From(s, a)]

TwoDigits(s, i) == i + 1 <= Len(s) /\ s[i] \in Digits /\ s[i + 1] \in Digits

NoRes == [ok |-> FALSE, var |-> <<>>, val |-> <<>>, io_groups |-> <<>>]

\* the groups (1, 2, 4, 6) of RES_PAT for a name, << >> when it is not one
\* of the recognised names; an unset group is the empty string
ResGroups(tag) ==
    IF Len(tag) = 7 /\ StartsWith(tag, Chars("FILE")) /\ tag[5] \in {"I", "O"} /\ TwoDigits(tag, 6)
    THEN <<tag, <<tag[5]>>, <<>>, <<>>>>
    ELSE IF Len(tag) = 10 /\ StartsWith(tag, Chars("CBL_SYS")) /\ tag[8] \in {"0", "1"} /\ TwoDigits(tag, 9)
    THEN <<tag, <<>>, <<tag[8]>>, <<>>>>
    ELSE IF Len(tag) = 7 /\ tag[1] \in {"I", "O"} /\ TwoDigits(tag, 2) /\ EndsWith(tag, Chars("FILE"))
    THEN <<tag, <<>>, <<>>, <<tag[1]>>>>
    ELSE IF tag = Chars("IN_FILE") \/ tag = Chars("OUT_FILE")
    THEN <<tag, <<>>, <<>>, <<>>>>
    ELSE <<>>

\* RES_PAT.match(s): the name before the '=', group(8) and the io groups
RES_PAT(s) ==
    LET i == IndexFrom(s, 1, "=")
        groups == ResGroups(SubSeq(s, 1, i - 1))
    IN IF i = 0 \/ i = Len(s) \/ groups = <<>> THEN NoRes
       ELSE [ok |-> TRUE, var |-> SubSeq(s, 1, i - 1), val |-> From(s, i + 1), io_groups |-> groups]

\* the direction test of execute: is_input
IsInput(io_groups) ==
    IF FindFrom(io_groups[1], 1, Chars("IN_FILE")) > 0 THEN TRUE
    ELSE IF FindFrom(io_groups[1], 1, Chars("OUT_FILE")) > 0 THEN FALSE
    ELSE IF io_groups[2] # <<>> THEN io_groups[2] = <<"I">>
    ELSE IF io_groups[3] # <<>> THEN io_groups[3] = <<"0">>
    ELSE IF io_groups[4] # <<>> THEN io_groups[4] = <<"I">>
    ELSE FALSE

(***************************************************************************)
(* ajs_inout_logic.py: ComenvParser                                        *)
(***************************************************************************)
\* None, as the value of current_case_var
None == << >>

Star == <<"*">>

\* the characters of the texts in code-point order, for the comparison of strings
AsciiOrder ==
    <<"\t">> \o Chars(" !") \o <<"\"">> \o Chars("#$%&'()*+,-./0123456789:;<=>?@")
    \o Chars("ABCDEFGHIJKLMNOPQRSTUVWXYZ[") \o <<"\\">> \o Chars("]^_") \o <<Backtick>>
    \o Chars("abcdefghijklmnopqrstuvwxyz{|}~")

Ord(c) == CHOOSE i \in 1..Len(AsciiOrder) : AsciiOrder[i] = c

\* a < b for two strings
RECURSIVE StrLess(_, _)
StrLess(a, b) ==
    IF b = <<>> THEN FALSE
    ELSE IF a = <<>> THEN TRUE
    ELSE IF Head(a) = Head(b) THEN StrLess(Tail(a), Tail(b))
    ELSE Ord(Head(a)) < Ord(Head(b))

\* sorted(list(S))
RECURSIVE Sorted(_)
Sorted(S) ==
    IF S = {} THEN <<>>
    ELSE LET least == CHOOSE x \in S : \A y \in S \ {x} : StrLess(x, y)
         IN <<least>> \o Sorted(S \ {least})

\* the tuples that put one element of heads in front of every tuple of rest
RECURSIVE Prepend(_, _)
Prepend(heads, rest) ==
    IF heads = <<>> THEN <<>>
    ELSE [i \in 1..Len(rest) |-> <<Head(heads)>> \o rest[i]] \o Prepend(Tail(heads), rest)

\* list(itertools.product(*pattern_lists))
RECURSIVE Product(_)
Product(pattern_lists) ==
    IF pattern_lists = <<>> THEN << <<>> >>
    ELSE Prepend(Head(pattern_lists), Product(Tail(pattern_lists)))

\* first loop of parse_all_patterns, one line: sc holds current_case_var,
\* case_vars_order and case_patterns
ScanStep(sc, line) ==
    LET line_stripped == StripIn(line, WS)
        match == CaseVarSearch(line_stripped)
        branch == PatternOf(line_stripped)
    IN IF StartsWith(line_stripped, Chars("case"))
       THEN IF match.ok
            THEN [current_case_var |-> match.key,
                  case_vars_order |-> IF match.key \in Range(sc.case_vars_order)
                                      THEN sc.case_vars_order
                                      ELSE Append(sc.case_vars_order, match.key),
                  case_patterns |-> IF match.key \in DOMAIN sc.case_patterns
                                    THEN sc.case_patterns
                                    ELSE DictSet(sc.case_patterns, match.key, {})]
            ELSE sc
       ELSE IF sc.current_case_var # None
       THEN IF branch.ok /\ branch.key # Star
            THEN [sc EXCEPT !.case_patterns =
                     DictSet(@, sc.current_case_var, @[sc.current_case_var] \cup {branch.key})]
            ELSE sc
       ELSE IF StartsWith(line_stripped, Chars("esac"))
       THEN [sc EXCEPT !.current_case_var = None]
       ELSE sc

\* pattern_lists, then case_vars_order and all_combinations
PatternLists(order, patterns) ==
    [i \in 1..Len(order) |-> Append(Sorted(DictGet(patterns, order[i], {})), Star)]

CombinationOrder(order) == IF order = <<>> THEN <<Chars("_default_")>> ELSE order

AllCombinations(order, patterns) ==
    IF order = <<>> THEN << <<Star>> >> ELSE Product(PatternLists(order, patterns))

\* dict(zip(self.case_vars_order, combination))
PatternMap(order, combination) ==
    [k \in Range(order) |-> combination[CHOOSE i \in 1..Len(order) : order[i] = k]]

\* the state of one replay before its first line
ReplayStart(initial) ==
    [current_vars |-> initial, active_block |-> TRUE, case_active |-> FALSE,
     current_case_var |-> None, case_match_found |-> FALSE,
     stored |-> FALSE, name |-> <<>>, value |-> <<>>, before |-> initial, capped |-> FALSE,
     template |-> <<>>, passes |-> 0,
     is_pattern_line |-> FALSE, activated |-> FALSE, instances |-> <<>>]

\* lines 191-201: the assignment of an active line
ReplayAssign(st, line, is_pattern_line) ==
    LET l0 == StripIn(Remove(line, Chars("export ")), WS)
        l1 == IF is_pattern_line THEN StripIn(AfterFirst(l0, ")"), WS) ELSE l0
        l2 == IF EndsWith(l1, Chars(";;")) THEN StripIn(SubSeq(l1, 1, Len(l1) - 2), WS) ELSE l1
        line_to_parse == StripIn(BeforeFirst(l2, "#"), WS)
        var_match == VAR_ASSIGN_PAT(line_to_parse)
        value == StripIn(var_match.value, Quotes)
        r == Comenv_resolve(value, st.current_vars)
    IN IF var_match.ok
       THEN [st EXCEPT !.current_vars = DictSet(@, var_match.name, r.value),
                       !.stored = TRUE, !.name = var_match.name, !.value = r.value,
                       !.before = st.current_vars, !.capped = r.capped,
                       !.template = value, !.passes = r.passes]
       ELSE [st EXCEPT !.stored = FALSE]

\* a pattern line activates whenever it matches, earlier matches forgotten
BranchActivatesAgain(st, pattern, target_pattern) ==
    pattern = target_pattern \/ pattern = Star

\* line 182: whether a pattern line activates its branch
BranchActivates(st, pattern, target_pattern) ==
    ~st.case_match_found /\ (pattern = target_pattern \/ pattern = Star)

\* an assignment line is parsed whatever the flag says
AssignsAlways(st) == TRUE

\* line 191: an assignment line is parsed only in an active block
Assigns(st) == st.active_block

\* second loop of parse_all_patterns, one line of one combination
ReplayStep(st0, line, current_pattern_map) ==
    LET st == [st0 EXCEPT !.stored = FALSE, !.is_pattern_line = FALSE, !.activated = FALSE]
        line_stripped == StripIn(line, WS)
        match == CaseVarSearch(line_stripped)
        branch == IF st.case_active THEN PatternOf(line_stripped) ELSE NoKey
        target_pattern == DictGet(current_pattern_map, st.current_case_var, Star)
        activates == BranchActivates(st, branch.key, target_pattern)
        st1 == IF branch.ok
               THEN [st EXCEPT !.active_block = activates,
                               !.case_match_found = @ \/ activates,
                               !.is_pattern_line = TRUE, !.activated = activates]
               ELSE st
    IN IF line_stripped = <<>> \/ StartsWith(line_stripped, Chars("#")) THEN st
       ELSE IF StartsWith(line_stripped, Chars("if"))
       THEN [st EXCEPT !.active_block = evaluate_if_statement(line_stripped, st.current_vars)]
       ELSE IF StartsWith(line_stripped, Chars("else"))
       THEN [st EXCEPT !.active_block = ~@]
       ELSE IF StartsWith(line_stripped, Chars("fi"))
       THEN [st EXCEPT !.active_block = TRUE]
       ELSE IF StartsWith(line_stripped, Chars("case"))
       THEN IF match.ok
            THEN [st EXCEPT !.current_case_var = match.key,
                            !.case_match_found = FALSE, !.case_active = TRUE]
            ELSE st
       ELSE IF StartsWith(line_stripped, Chars("esac"))
       THEN [st EXCEPT !.current_case_var = None, !.case_match_found = FALSE,
                       !.case_active = FALSE, !.active_block = TRUE]
       ELSE IF st.case_active /\ ~branch.ok /\ StartsWith(line_stripped, Chars(";;"))
       THEN [st EXCEPT !.active_block = FALSE]
       ELSE IF Assigns(st1) THEN ReplayAssign(st1, line, branch.ok)
       ELSE st1

\* the case instances open at a line, innermost last, each with the number of
\* its pattern lines that activated so far: a case line opens an instance,
\* an esac line closes the innermost one
LogInstances(st, line) ==
    LET line_stripped == StripIn(line, WS)
        open == st.instances
        n == Len(open)
    IN IF \/ line_stripped = <<>>
          \/ \E p \in {"#", "if", "else", "fi"} : StartsWith(line_stripped, Chars(p))
       THEN st
       ELSE IF StartsWith(line_stripped, Chars("case"))
       THEN [st EXCEPT !.instances = Append(open, 0)]
       ELSE IF StartsWith(line_stripped, Chars("esac"))
       THEN [st EXCEPT !.instances = IF n = 0 THEN open ELSE SubSeq(open, 1, n - 1)]
       ELSE IF st.activated /\ n > 0
       THEN [st EXCEPT !.instances[n] = @ + 1]
       ELSE st

\* dict(item.split('=', 1) for item in env.split(';') if '=' in item)
RECURSIVE EnvPairs(_)
EnvPairs(items) ==
    IF items = <<>> THEN EmptyDict
    ELSE LET item == items[Len(items)]
             d == EnvPairs(SubSeq(items, 1, Len(items) - 1))
         IN IF Contains(item, "=")
            THEN DictSet(d, BeforeFirst(item, "="), AfterFirst(item, "="))
            ELSE d

EnvVars(env_str) == EnvPairs(Split(env_str, ";"))

\* the key_tuple of get_var_dict_for_env
KeyTuple(order, patterns, env_vars) ==
    [i \in 1..Len(order) |->
        LET val == DictGet(env_vars, order[i], Star)
        IN IF order[i] \in DOMAIN patterns /\ val \notin patterns[order[i]] THEN Star ELSE val]

get_var_dict_for_env(master, order, patterns, initial, ajs_env_str) ==
    IF master = EmptyDict THEN initial
    ELSE DictGet(master, KeyTuple(order, patterns, EnvVars(ajs_env_str)), initial)

(***************************************************************************)
(* ajs_inout_logic.py: ShellParser and ShellExecutor                       *)
(***************************************************************************)
Proc(op, name, val, io_groups) == [op |-> op, name |-> name, val |-> val, io_groups |-> io_groups]

\* _parse_shell_to_procedures, one line
ProceduresOfLine(raw) ==
    LET line == StripIn(BeforeFirst(StripIn(raw, WS), "#"), WS)
        rm_match == RM_PAT(line)
        a_match == VAR_ASSIGN_PAT(line)
        b_match == RES_PAT(line)
    IN IF line = <<>> THEN <<>>
       ELSE IF rm_match.ok THEN <<Proc("RM", StripIn(rm_match.key, WS), <<>>, <<>>)>>
       ELSE (IF a_match.ok
             THEN <<Proc("ASSIGN", a_match.name, StripIn(a_match.value, Quotes), <<>>)>>
             ELSE <<>>)
            \o
            (IF b_match.ok
             THEN <<Proc("IO_ASSIGN", b_match.var, StripIn(b_match.val, Quotes), b_match.io_groups)>>
             ELSE <<>>)

\* _parse_shell_to_procedures
RECURSIVE parse_shell_to_procedures(_)
parse_shell_to_procedures(shell) ==
    IF shell = <<>> THEN <<>>
    ELSE ProceduresOfLine(Head(shell)) \o parse_shell_to_procedures(Tail(shell))

\* str.split(): the runs of characters between white space
RECURSIVE SplitWS(_)
SplitWS(s) ==
    LET t == LStripIn(s, WS)
        n == RunLenNot(t, 1, WS)
    IN IF t = <<>> THEN <<>>
       ELSE <<SubSeq(t, 1, n)>> \o SplitWS(From(t, n + 1))

\* the decimal digits of a positive number below 100
Decimal(n) ==
    LET d == Chars("0123456789")
    IN IF n < 10 THEN <<d[n + 1]>> ELSE <<d[(n \div 10) + 1], d[(n % 10) + 1]>>

RECURSIVE WithParams(_, _, _)
WithParams(ctx, params, i) ==
    IF i > Len(params) THEN ctx
    ELSE WithParams(DictSet(ctx, Decimal(i), params[i]), params, i + 1)

\* ShellExecutor._init_context
init_context(comenv_dict, env, param) ==
    WithParams(DictUpdate(comenv_dict, EnvVars(env)), SplitWS(param), 1)

\* ShellExecutor._resolve_value: one substitution pass
Executor_resolve_value(shell_context, value_template) ==
    IF value_template = <<>> \/ ~Contains(value_template, "$") THEN value_template
    ELSE Substitute(value_template, shell_context)

\* a removal that retracts nothing
WithoutNothing(files, resolved) == files

\* [f for f in files if f != resolved]
RECURSIVE Without(_, _)
Without(files, resolved) ==
    IF files = <<>> THEN <<>>
    ELSE IF Head(files) = resolved THEN Without(Tail(files), resolved)
    ELSE <<Head(files)>> \o Without(Tail(files), resolved)

\* ShellExecutor.execute, one procedure: ex holds shell_context, inputs,
\* outputs and unresolved_io_vars
ExecuteProc(ex, proc) ==
    LET resolved_val == Executor_resolve_value(ex.shell_context, proc.val)
        resolved == Executor_resolve_value(ex.shell_context, proc.name)
        context == DictSet(ex.shell_context, proc.name, resolved_val)
        is_unresolved ==
            \/ \E key \in Range(FindAllFrom(resolved_val, 1)) : key \notin DOMAIN context
            \/ Contains(resolved_val, Backtick)
            \/ FindFrom(resolved_val, 1, Chars("$(")) > 0
    IN IF proc.op = "RM"
       THEN [ex EXCEPT !.outputs = Without(@, resolved), !.inputs = Without(@, resolved)]
       ELSE IF proc.op = "ASSIGN"
       THEN [ex EXCEPT !.shell_context = context]
       ELSE [ex EXCEPT
             !.shell_context = context,
             !.inputs = IF IsInput(proc.io_groups) THEN Append(@, resolved_val) ELSE @,
             !.outputs = IF IsInput(proc.io_groups) THEN @ ELSE Append(@, resolved_val),
             !.unresolved = IF is_unresolved THEN @ \cup {proc.val} ELSE @]

\* what each procedure of the replay resolved to, in procedure order: the
\* target of a REMOVE, the value and direction of an IO_ASSIGN (history of
\* the run, kept beside the executor's state)
LogProc(after, ex, proc) ==
    [after EXCEPT !.log =
        IF proc.op = "RM"
        THEN Append(@, [op |-> "RM", is_input |-> FALSE, tmpl |-> proc.name,
                        value |-> Executor_resolve_value(ex.shell_context, proc.name)])
        ELSE IF proc.op = "IO_ASSIGN"
        THEN Append(@, [op |-> "IO_ASSIGN", is_input |-> IsInput(proc.io_groups), tmpl |-> proc.val,
                        value |-> Executor_resolve_value(ex.shell_context, proc.val)])
        ELSE @]

(***************************************************************************)
(* ajs_inout_logic.py: the texts the analysis is run on                    *)
(***************************************************************************)
\* the lines of a text, each as its characters
Text(strs) == [i \in 1..Len(strs) |-> Chars(strs[i])]

\* what the shared script holds before its case blocks
PreMenu ==
    { <<>>,
      Text(<<"A=$B", "B=x", "C=$A">>),
      Text(<<"B=x$B", "C=$B">>),
      Text(<<"A=x$B", "B=y$A", "C=$A">>),
      Text(<<"export HOME='/h'", "  LOG=${HOME}/log  # dir", "# note">>),
      Text(<<"X=1", "if [ \"${X}\" = \"1\" ]; then", "MODE=live", "else", "MODE=test", "fi">>) }

\* the case blocks of the shared script
BlockMenu ==
    { <<>>,
      Text(<<"case ${ENV} in", "dev) BASE=/d;;", "prod) BASE=/p;;", "esac">>),
      Text(<<"case \"$ENV\" in", "*) BASE=/w;;", "prod) BASE=/p;;", "prod) BASE=/q;;", "esac">>),
      Text(<<"case ${ENV} in", "dev)", "if [ \"${X}\" = \"1\" ]; then", "BASE=/d", "fi", ";;",
             "prod)", "BASE=/p", ";;", "esac">>),
      Text(<<"case ${ENV} in", "dev) BASE=/d;;", "esac",
             "case $SITE in", "east) DIR=${BASE}/e;;", "*) DIR=${BASE}/o;;", "esac">>),
      Text(<<"case ${ENV} in", "dev)", "case $SITE in", "east) DIR=/e;;", "*) DIR=/o;;", "esac",
             ";;", "prod) BASE=/p;;", "esac">>) }

\* what the shared script holds after its case blocks
PostMenu ==
    { <<>>,
      Text(<<"OUT=${BASE}/out", "BASE=/z">>) }

\* the bank's initial table
InitialVarsMenu ==
    { EmptyDict,
      [k \in {Chars("BASE"), Chars("X")} |-> IF k = Chars("X") THEN Chars("1") ELSE Chars("/i")] }

\* the environment string and the parameters of a unit
UnitMenu ==
    { <<Chars(""), Chars("")>>,
      <<Chars("ENV=prod"), Chars("")>>,
      <<Chars("ENV=prod"), Chars("p1  p2")>>,
      <<Chars("ENV=qa;SITE=east"), Chars("")>>,
      <<Chars("SITE=west;ENV=dev;BASE=/u"), Chars("p1  p2")>>,
      <<Chars("_default_=x"), Chars("")>> }

\* the scripts of the units
ShellMenu ==
    { <<>>,
      Text(<<"IN_FILE01=${BASE}/x.dat">>),
      Text(<<"IN_FILE=${BASE}/x.dat", "OUT_FILE=\"${DIR}/y.dat\"">>),
      Text(<<"WORK=${BASE}/w", "FILEO01=${WORK}/t.tmp", "FILEI01=$1", "rm -f ${WORK}/t.tmp">>),
      Text(<<"CBL_SYS001=$BASE/in  # input", "CBL_SYS101=$(date)", "O02FILE=${NONE}/o", "echo done">>),
      Text(<<"FILEI01=$A", "FILEO01=/t/a", "FILEI02=/t/a", "rm -f /t/a", "FILEO02=/t/a">>),
      Text(<<"1=/q", "ENV=sh", "FILEO01=$ENV/a; export FILEO01", "FILEI02=$FILEO01", "FILEI03=$1",
             "FILEI04=$ENV/${NONE}$(ls $1)">>) }

(***************************************************************************)
(* ajs_inout_logic.py: analyze_ajs_jobs as a state machine                 *)
(***************************************************************************)
InitEnv ==
    /\ InitRel /\ base = pRoot /\ IdleArc /\ IdleDep /\ IdleFil /\ IdleRun
    /\ ephase = "scan"
    /\ \E pre \in PreMenu, block \in BlockMenu, post \in PostMenu :
           comenv_lines = pre \o block \o post
    /\ initial_vars \in InitialVarsMenu
    /\ scan = [current_case_var |-> None, case_vars_order |-> <<>>, case_patterns |-> EmptyDict]
    /\ pos = 1
    /\ combinations = <<>>
    /\ combo = 1
    /\ master_var_dict = EmptyDict
    /\ replay = <<>>
    /\ ajs_record = <<>>
    /\ unit_var_dict = <<>>
    /\ procedures = <<>>
    /\ exec = <<>>
    /\ procPos = 1

\* parse_all_patterns on a script that is absent or unreadable: line 104
ParseNothing ==
    /\ ephase = "scan"
    /\ comenv_lines = <<>>
    /\ ephase' = "ready"
    /\ UNCHANGED <<comenv_lines, initial_vars, scan, pos, combinations, combo,
                   master_var_dict, replay, ajs_record, unit_var_dict, procedures, exec, procPos>>
    /\ UNCHANGED <<relVars, arcVars, depVars, filVars, runVars>>

\* parse_all_patterns: one line of the pattern scan
ScanLine ==
    /\ ephase = "scan"
    /\ pos <= Len(comenv_lines)
    /\ scan' = ScanStep(scan, comenv_lines[pos])
    /\ pos' = pos + 1
    /\ UNCHANGED <<ephase, comenv_lines, initial_vars, combinations, combo,
                   master_var_dict, replay, ajs_record, unit_var_dict, procedures, exec, procPos>>
    /\ UNCHANGED <<relVars, arcVars, depVars, filVars, runVars>>

\* parse_all_patterns: the combinations, and the start of the first replay
BuildCombinations ==
    /\ ephase = "scan"
    /\ comenv_lines # <<>>
    /\ pos > Len(comenv_lines)
    /\ combinations' = AllCombinations(scan.case_vars_order, scan.case_patterns)
    /\ scan' = [scan EXCEPT !.case_vars_order = CombinationOrder(@)]
    /\ combo' = 1
    /\ pos' = 1
    /\ replay' = ReplayStart(initial_vars)
    /\ ephase' = "replay"
    /\ UNCHANGED <<comenv_lines, initial_vars, master_var_dict, ajs_record,
                   unit_var_dict, procedures, exec, procPos>>
    /\ UNCHANGED <<relVars, arcVars, depVars, filVars, runVars>>

\* parse_all_patterns: one line of the replay of a combination
ReplayLine ==
    /\ ephase = "replay"
    /\ pos <= Len(comenv_lines)
    /\ replay' = LogInstances(ReplayStep(replay, comenv_lines[pos],
                                         PatternMap(scan.case_vars_order, combinations[combo])),
                              comenv_lines[pos])
    /\ pos' = pos + 1
    /\ UNCHANGED <<ephase, comenv_lines, initial_vars, scan, combinations, combo,
                   master_var_dict, ajs_record, unit_var_dict, procedures, exec, procPos>>
    /\ UNCHANGED <<relVars, arcVars, depVars, filVars, runVars>>

\* parse_all_patterns: line 202, then the next combination
EndCombination ==
    /\ ephase = "replay"
    /\ pos > Len(comenv_lines)
    /\ master_var_dict' = DictSet(master_var_dict, combinations[combo], replay.current_vars)
    /\ IF combo < Len(combinations)
       THEN /\ combo' = combo + 1
            /\ pos' = 1
            /\ replay' = ReplayStart(initial_vars)
            /\ UNCHANGED ephase
       ELSE /\ ephase' = "ready"
            /\ UNCHANGED <<combo, pos, replay>>
    /\ UNCHANGED <<comenv_lines, initial_vars, scan, combinations, ajs_record,
                   unit_var_dict, procedures, exec, procPos>>
    /\ UNCHANGED <<relVars, arcVars, depVars, filVars, runVars>>

\* analyze_ajs_jobs: the next record, its table, its procedures and the
\* construction of its executor
\* a context that is the table handed in, not a copy of it
WritesTableToo(ex) == TRUE

\* ShellExecutor._init_context, line 254: shell_context is a deep copy of the
\* table, so that a write to the context is no write to the table
WritesTable(ex) == FALSE

\* the shared tables after the context of the unit has become ctx: the table
\* of the unit is the entry of its case combination, or initial_vars
TablesAfter(ex, ctx, env) ==
    LET key == KeyTuple(scan.case_vars_order, scan.case_patterns, EnvVars(env))
        in_master == master_var_dict # EmptyDict /\ key \in DOMAIN master_var_dict
    IN [master |-> IF WritesTable(ex) /\ in_master
                   THEN DictSet(master_var_dict, key, ctx) ELSE master_var_dict,
        initial |-> IF WritesTable(ex) /\ ~in_master THEN ctx ELSE initial_vars]

StartUnit ==
    /\ ephase \in {"ready", "unitdone"}
    /\ \E unit \in UnitMenu, shell \in ShellMenu :
         LET env == unit[1]
             param == unit[2]
             table == get_var_dict_for_env(master_var_dict, scan.case_vars_order,
                                           scan.case_patterns, initial_vars, env)
         IN /\ ajs_record' = [env |-> env, param |-> param, shell |-> shell]
            /\ unit_var_dict' = table
            /\ procedures' = parse_shell_to_procedures(shell)
            /\ exec' = [shell_context |-> init_context(table, env, param),
                        inputs |-> <<>>, outputs |-> <<>>, unresolved |-> {},
                        log |-> <<>>]
            /\ master_var_dict' = TablesAfter(exec', exec'.shell_context, env).master
            /\ initial_vars' = TablesAfter(exec', exec'.shell_context, env).initial
    /\ procPos' = 1
    /\ ephase' = "exec"
    /\ UNCHANGED <<comenv_lines, scan, pos, combinations, combo, replay>>
    /\ UNCHANGED <<relVars, arcVars, depVars, filVars, runVars>>

\* ShellExecutor.execute: one procedure
ExecStep ==
    /\ ephase = "exec"
    /\ procPos <= Len(procedures)
    /\ exec' = LogProc(ExecuteProc(exec, procedures[procPos]), exec, procedures[procPos])
    /\ master_var_dict' = TablesAfter(exec, exec'.shell_context, ajs_record.env).master
    /\ initial_vars' = TablesAfter(exec, exec'.shell_context, ajs_record.env).initial
    /\ procPos' = procPos + 1
    /\ UNCHANGED <<ephase, comenv_lines, scan, pos, combinations, combo,
                   replay, ajs_record, unit_var_dict, procedures>>
    /\ UNCHANGED <<relVars, arcVars, depVars, filVars, runVars>>

\* ShellExecutor.execute: line 301
ExecReturn ==
    /\ ephase = "exec"
    /\ procPos > Len(procedures)
    /\ ephase' = "unitdone"
    /\ UNCHANGED <<comenv_lines, initial_vars, scan, pos, combinations, combo,
                   master_var_dict, replay, ajs_record, unit_var_dict, procedures, exec, procPos>>
    /\ UNCHANGED <<relVars, arcVars, depVars, filVars, runVars>>

NextEnv ==
    \/ ParseNothing
    \/ ScanLine
    \/ BuildCombinations
    \/ ReplayLine
    \/ EndCombination
    \/ StartUnit
    \/ ExecStep
    \/ ExecReturn

SpecEnv == InitEnv /\ [][NextEnv]_vars

(***************************************************************************)
(* Properties of the variable resolver and of the script replay            *)
(***************************************************************************)
ScenarioA == Text(<<"case ${ENV} in", "dev) BASE=/d;;", "prod) BASE=/p;;", "esac">>)

\* C9: with the shared script 'case ${ENV} ... dev) BASE=/d;; prod) BASE=/p;;
\* esac', a unit whose script holds the line IN_FILE01=${BASE}/x.dat and whose
\* environment is ENV=prod has /p/x.dat in its input list after the replay.
C9_ScenarioAInput ==
    (/\ ephase = "unitdone"
     /\ comenv_lines = ScenarioA
     /\ initial_vars = EmptyDict
     /\ ajs_record.env = Chars("ENV=prod")
     /\ Chars("IN_FILE01=${BASE}/x.dat") \in Range(ajs_record.shell))
    => Chars("/p/x.dat") \in Range(exec.inputs)

\* substitution against a table leaves every value of the table unchanged
FixedPoint(table) == \A k \in DOMAIN table : Substitute(table[k], table) = table[k]

\* C10 as stated: for every combination, the table parse_all_patterns
\* produced is a fixed point of substitution.
C10_TableIsFixedPoint ==
    ephase = "ready" => \A c \in DOMAIN master_var_dict : FixedPoint(master_var_dict[c])

\* C10: the value an assignment stores during the replay of a combination is
\* unchanged by substitution against the table the assignment was resolved
\* with, unless all ten passes changed the value.
C10_StoredValueIsFixedPoint ==
    (ephase = "replay" /\ replay.stored /\ ~replay.capped)
    => Substitute(replay.value, replay.before) = replay.value

\* C=$A resolved in two passes against A=$B, B=x
C10_Witness ==
    /\ ephase = "replay"
    /\ replay.stored /\ ~replay.capped
    /\ replay.name = Chars("C")
    /\ replay.value = Chars("x")
    /\ Chars("A") \in DOMAIN replay.before
    /\ replay.before[Chars("A")] = Chars("$B")

\* C11: during the replay of a combination, at most one pattern line of each
\* case instance activates its branch, the wildcard included.
C11_OneBranchPerInstance ==
    ephase = "replay" => \A i \in 1..Len(replay.instances) : replay.instances[i] <= 1

\* the wildcard branch came first and was taken: the literal branch that
\* equals the combination's value does not activate
C11_Witness ==
    /\ ephase = "replay"
    /\ pos > 1
    /\ comenv_lines[pos - 1] = Chars("prod) BASE=/p;;")
    /\ combinations[combo] = <<Chars("prod")>>
    /\ replay.is_pattern_line /\ ~replay.activated
    /\ replay.instances = <<1>>

\* the value a unit's environment string gives a variable: that of the last
\* item 'name=value' of the string, Star when there is none
RECURSIVE LastValue(_, _, _)
LastValue(items, name, i) ==
    IF i = 0 THEN Star
    ELSE IF StartsWith(items[i], name \o <<"=">>) THEN From(items[i], Len(name) + 2)
    ELSE LastValue(items, name, i - 1)

UnitValue(env, name) == LastValue(Split(env, ";"), name, Len(Split(env, ";")))

\* the case variables the scan discovered, in first-seen order
CaseVariables == SelectSeq(scan.case_vars_order, LAMBDA v : v \in DOMAIN scan.case_patterns)

\* the combination of a unit: for each case variable the unit's value when it
\* is a discovered literal pattern of the variable, the wildcard otherwise;
\* the default combination when the script has no case variable
UnitCombination(env) ==
    IF CaseVariables = <<>> THEN <<Star>>
    ELSE [i \in 1..Len(CaseVariables) |->
            IF UnitValue(env, CaseVariables[i]) \in scan.case_patterns[CaseVariables[i]]
            THEN UnitValue(env, CaseVariables[i])
            ELSE Star]

\* C12: when the shared script was read, the table looked up for a unit is
\* the table computed for the unit's combination.
C12_LookupIsUnitCombination ==
    (ephase \in {"exec", "unitdone"} /\ comenv_lines # <<>>)
    => /\ UnitCombination(ajs_record.env) \in DOMAIN master_var_dict
       /\ unit_var_dict = master_var_dict[UnitCombination(ajs_record.env)]

\* the values the replay log leaves in a direction: those some IO_ASSIGN of
\* the direction resolved to with no later REMOVE resolving to the same value
Surviving(log, is_input) ==
    { log[i].value : i \in { k \in 1..Len(log) :
        /\ log[k].op = "IO_ASSIGN" /\ log[k].is_input = is_input
        /\ \A j \in (k + 1)..Len(log) :
               ~(log[j].op = "RM" /\ log[j].value = log[k].value) } }

\* C13: after the replay of a procedure list the output list (the input
\* list) holds exactly the values an IO_ASSIGN of that direction resolved to
\* and no later REMOVE resolved to.
C13_ListsAreSurvivingDeclarations ==
    ephase = "unitdone"
    => /\ Range(exec.outputs) = Surviving(exec.log, FALSE)
       /\ Range(exec.inputs) = Surviving(exec.log, TRUE)

\* a REMOVE retracted /t/a from both lists and the output declared after it
\* stayed
C13_Witness ==
    /\ ephase = "unitdone"
    /\ Len(exec.log) = 5
    /\ exec.log[4] = [op |-> "RM", is_input |-> FALSE, tmpl |-> Chars("/t/a"), value |-> Chars("/t/a")]
    /\ exec.log[2].value = Chars("/t/a") /\ ~exec.log[2].is_input
    /\ exec.log[3].value = Chars("/t/a") /\ exec.log[3].is_input
    /\ exec.outputs = <<Chars("/t/a")>>
    /\ Chars("/t/a") \notin Range(exec.inputs)

\* the variable references and command-substitution markers left in a value
StillDynamic(value) ==
    \/ FindAllFrom(value, 1) # <<>>
    \/ Contains(value, Backtick)
    \/ FindFrom(value, 1, Chars("$(")) > 0

\* C14: when the value an IO_ASSIGN resolved to still holds a variable
\* reference or a command-substitution marker, the raw template of the
\* IO_ASSIGN is in the unresolved set the replay returns.
C14_DynamicValueIsUnresolved ==
    ephase = "unitdone"
    => \A i \in 1..Len(exec.log) :
          (exec.log[i].op = "IO_ASSIGN" /\ StillDynamic(exec.log[i].value))
          => exec.log[i].tmpl \in exec.unresolved

(***************************************************************************)
(* ajs_rel_logic.py: pre_filter_definition, line by line                   *)
(***************************************************************************)
Tab == "\t"

\* ln.count(c)
Count(s, c) == Cardinality({i \in 1..Len(s) : s[i] = c})

\* st.split('=', 1)[1].split(',', 1)[0].strip()
UnitNameIn(st) == StripIn(BeforeFirst(AfterFirst(st, "="), ","), WS)

\* while stack and stack[-1][0] >= ind: stack.pop()
RECURSIVE PopTo(_, _)
PopTo(stk, ind) ==
    IF stk # <<>> /\ stk[Len(stk)][1] >= ind THEN PopTo(SubSeq(stk, 1, Len(stk) - 1), ind)
    ELSE stk

\* '/' + '/'.join(n for _, n in stack)
StackPath(stk) == <<"/">> \o Join([i \in 1..Len(stk) |-> stk[i][2]], "/")

\* a skip that ends at the first closing brace met
SkipEndsAtAnyBrace(st, curr_indent, sk, d) == StartsWith(st, <<"}">>)

\* line 213: the closing brace of the skipped unit
SkipEnds(st, curr_indent, sk, d) ==
    StartsWith(st, <<"}">>) /\ curr_indent = sk /\ d = 0

\* a parent whose arcs are never taken as written
ArcsNeverWritten(written, parent_path) == FALSE

\* line 242: ar_written_map.get(parent_path)
ArcsWritten(written, parent_path) == parent_path \in written

\* generate_ar_lines, line 181: the text of one arc line
ArText(indent_level, pair) ==
    [i \in 1..indent_level |-> Tab] \o Chars("ar=(f=") \o pair[1]
        \o Chars(",t=") \o pair[2] \o Chars(",seq);")

\* the definitions filtered: a net G with the jobs A and C and the nested net
\* B (jobs A and C), two arcs in G and one in B; the same with no arc in G
\* and a brace inside a parameter of B's job A; a net G whose arc lines
\* stand after the bodies of its children B and C
DefinitionMenu ==
    { Text(<<"unit=G,,u,;", "{", "\tty=n;", "\tar=(f=A,t=B,seq);", "\tar=(f=B,t=C,seq);",
             "\tunit=A,,u,;", "\t{", "\t\tty=j;", "\t}",
             "\tunit=B,,u,;", "\t{", "\t\tty=n;", "\t\tar=(f=A,t=C,seq);",
             "\t\tunit=A,,u,;", "\t\t{", "\t\t\tty=j;", "\t\t}",
             "\t\tunit=C,,u,;", "\t\t{", "\t\t\tty=j;", "\t\t}",
             "\t}",
             "\tunit=C,,u,;", "\t{", "\t\tty=j;", "\t}",
             "}">>),
      Text(<<"unit=G,,u,;", "{", "\tty=n;",
             "\tunit=B,,u,;", "\t{", "\t\tar=(f=A,t=C,seq);",
             "\t\tunit=A,,u,;", "\t\t{", "\t\t\tsc=\"awk '{print}'\";", "\t\t}",
             "\t\tunit=C,,u,;", "\t\t{", "\t\t}",
             "\t}",
             "\tunit=A,,u,;", "\t{", "\t}",
             "}">>),
      Text(<<"unit=G,,u,;", "{",
             "\tunit=B,,u,;", "\t{", "\t\tunit=A,,u,;", "\t\t{", "\t\t}",
             "\t\tunit=C,,u,;", "\t\t{", "\t\t}", "\t}",
             "\tar=(f=A,t=B,seq);",
             "\tunit=C,,u,;", "\t{", "\t}",
             "\tar=(f=B,t=C,seq);",
             "}">>) }

\* the graphs handed to the filter: none, and the relations A -> B -> C in G
\* with A -> C in G/B
FilterGraphMenu ==
    { [nodes |-> <<>>, edges |-> <<>>],
      [nodes |-> <<pG, pGA, pGB, pGC, pGBA, pGBC>>,
       edges |-> <<<<pGA, pGB>>, <<pGB, pGC>>, <<pGBA, pGBC>>>>] }

\* the need-sets handed to the filter: any set of the units, and one that
\* names a unit with a trailing slash
FilterNeedMenu ==
    (SUBSET {pG, pGA, pGB, pGC, pGBA, pGBC}) \cup {{pG, pGA \o <<"/">>}}

InitFil ==
    /\ base = pRoot /\ curParent = <<>> /\ nParsed = 0 /\ rphase = "filter"
    /\ target = <<>> /\ q = <<>> /\ needLog = <<>>
    /\ IdleArc /\ IdleDep /\ IdleEnv /\ IdleRun
    /\ withGraph \in BOOLEAN
    /\ \E g \in FilterGraphMenu :
          /\ gNodes = g.nodes /\ gEdges = g.edges
          /\ withGraph \/ g.nodes = <<>>
    /\ need \in FilterNeedMenu
    /\ def_lines \in DefinitionMenu
    /\ fphase = "lines"
    /\ fpos = 1
    /\ out = <<>>
    /\ outAt = <<>>
    /\ stack = <<>>
    /\ skip = FALSE
    /\ sk_ind = -1
    /\ depth = 0
    /\ ar_written_map = {}

\* one turn of the loop of lines 207-250
FilterLine ==
    /\ fphase = "lines"
    /\ fpos <= Len(def_lines)
    /\ LET ln == def_lines[fpos]
           st == LStripIn(ln, WS)
           curr_indent == Count(ln, Tab)
           pass == /\ out' = Append(out, ln)
                   /\ outAt' = Append(outAt, [at |-> fpos, kind |-> "line"])
       IN IF skip
          THEN LET d == depth + Count(ln, "{") - Count(ln, "}")
                   ends == SkipEnds(st, curr_indent, sk_ind, d)
               IN /\ depth' = d
                  /\ skip' = ~ends
                  /\ stack' = IF ends THEN PopTo(stack, sk_ind) ELSE stack
                  /\ UNCHANGED <<out, outAt, sk_ind, ar_written_map>>
          ELSE IF StartsWith(st, Chars("unit="))
          THEN LET stk == Append(PopTo(stack, curr_indent), <<curr_indent, UnitNameIn(st)>>)
               IN /\ stack' = stk
                  /\ IF StackPath(stk) \notin NormalizedNeed(need)
                     THEN /\ skip' = TRUE /\ sk_ind' = curr_indent /\ depth' = 0
                          /\ UNCHANGED <<out, outAt>>
                     ELSE /\ pass
                          /\ UNCHANGED <<skip, sk_ind, depth>>
                  /\ UNCHANGED ar_written_map
          ELSE IF StartsWith(st, Chars("ar=")) /\ withGraph
          THEN LET parent_path == StackPath(stack)
                   children == HierarchyChildren(NormalizedNeed(need), parent_path)
               IN /\ IF stack # <<>> /\ ~ArcsWritten(ar_written_map, parent_path)
                     THEN /\ \E order \in Orders(children) :
                               LET pairs == IF children # {}
                                            THEN generate_ar_lines(gNodes, gEdges, order, parent_path)
                                            ELSE <<>>
                               IN /\ out' = out \o [k \in 1..Len(pairs) |-> ArText(curr_indent, pairs[k])]
                                  /\ outAt' = outAt \o [k \in 1..Len(pairs) |-> [at |-> fpos, kind |-> "new"]]
                          /\ ar_written_map' = ar_written_map \cup {parent_path}
                     ELSE UNCHANGED <<out, outAt, ar_written_map>>
                  /\ UNCHANGED <<stack, skip, sk_ind, depth>>
          ELSE IF StartsWith(st, Chars("ar="))
          THEN \* G is None: line 238 appends the line and line 250 appends it again
               /\ out' = out \o <<ln, ln>>
               /\ outAt' = outAt \o <<[at |-> fpos, kind |-> "line"], [at |-> fpos, kind |-> "line"]>>
               /\ UNCHANGED <<stack, skip, sk_ind, depth, ar_written_map>>
          ELSE /\ pass
               /\ UNCHANGED <<stack, skip, sk_ind, depth, ar_written_map>>
    /\ fpos' = fpos + 1
    /\ UNCHANGED <<def_lines, withGraph, fphase>>
    /\ UNCHANGED <<relVars, arcVars, depVars, envVars, runVars>>

\* line 252: the loop is over, out is joined and returned
FilterReturn ==
    /\ fphase = "lines"
    /\ fpos > Len(def_lines)
    /\ fphase' = "done"
    /\ UNCHANGED <<def_lines, withGraph, fpos, out, outAt, stack, skip, sk_ind, depth,
                   ar_written_map>>
    /\ UNCHANGED <<relVars, arcVars, depVars, envVars, runVars>>

NextFil == FilterLine \/ FilterReturn

SpecFil == InitFil /\ [][NextFil]_vars

(***************************************************************************)
(* Properties of the definition filter                                     *)
(***************************************************************************)
IsUnitLine(i) == StartsWith(LStripIn(def_lines[i], WS), Chars("unit="))
IsArcLine(i) == StartsWith(LStripIn(def_lines[i], WS), Chars("ar="))

\* the braces opened less the braces closed by the lines a..b
RECURSIVE Balance(_, _)
Balance(a, b) ==
    IF b < a THEN 0
    ELSE Count(def_lines[b], "{") - Count(def_lines[b], "}") + Balance(a, b - 1)

\* the line closing the body of the unit declared on line u
BlockEnd(u) ==
    CHOOSE c \in (u + 1)..Len(def_lines) :
        /\ Balance(u, c) = 0
        /\ \A k \in (u + 1)..(c - 1) : Balance(u, k) # 0

\* the declarations of the units line i belongs to: its own unit and the
\* enclosing ones
Enclosing(i) == {u \in 1..i : IsUnitLine(u) /\ i <= BlockEnd(u)}

RECURSIVE Ascending(_)
Ascending(S) ==
    IF S = {} THEN <<>>
    ELSE LET m == CHOOSE x \in S : \A y \in S : x <= y
         IN <<m>> \o Ascending(S \ {m})

\* the name declared on line u: the text between 'unit=' and the first comma
DeclaredName(u) ==
    LET at == FindFrom(def_lines[u], 1, Chars("unit=")) + 5
    IN SubSeq(def_lines[u], at, IndexFrom(def_lines[u], at, ",") - 1)

\* the full path of the unit declared on line u
FullPath(u) ==
    LET chain == Ascending(Enclosing(u))
    IN <<"/">> \o Join([k \in 1..Len(chain) |-> DeclaredName(chain[k])], "/")

\* the need-set names the unit (with or without a trailing slash)
InNeed(path) == \E p \in need : RStrip(p, "/") = path

\* the unit of line i and all its enclosing units are in the need-set
Wanted(i) == \A u \in Enclosing(i) : InNeed(FullPath(u))

Passed(i) ==
    {k \in 1..Len(out) : outAt[k] = [at |-> i, kind |-> "line"] /\ out[k] = def_lines[i]}

\* C15: the filter passes the 'unit=' line of a unit exactly when the unit
\* and all its enclosing units are in the need-set; every line of a unit that
\* is not in the need-set (declaration, body, nested units) gives no output,
\* and every other line that is not an arc line is passed once, in order.
C15_UnitKeptIffChainInNeed ==
    fphase = "done"
    => /\ \A i \in 1..Len(def_lines) : IsUnitLine(i) => (Passed(i) # {} <=> Wanted(i))
       /\ \A i \in 1..Len(def_lines) : ~Wanted(i) => \A k \in 1..Len(out) : outAt[k].at # i
       /\ \A i \in 1..Len(def_lines) :
             (Wanted(i) /\ ~IsArcLine(i)) => Cardinality(Passed(i)) = 1
       /\ \A k \in 1..(Len(out) - 1) : outAt[k].at <= outAt[k + 1].at

\* B is not needed: its own A, though named by the need-set, is dropped with
\* it, and the filter resumes with C and the closing brace of G
C15_Witness ==
    /\ fphase = "done"
    /\ ~withGraph
    /\ need = {pG, pGC, pGBA}
    /\ out = Text(<<"unit=G,,u,;", "{", "\tty=n;",
                    "\tar=(f=A,t=B,seq);", "\tar=(f=A,t=B,seq);",
                    "\tar=(f=B,t=C,seq);", "\tar=(f=B,t=C,seq);",
                    "\tunit=C,,u,;", "\t{", "\t\tty=j;", "\t}", "}">>)

\* the first arc line of the unit whose arcs line i belongs to
FirstArcLine(i) ==
    LET parent == CHOOSE u \in Enclosing(i) : \A v \in Enclosing(i) : v <= u
        arcs == {j \in 1..Len(def_lines) :
                    /\ IsArcLine(j) /\ Enclosing(j) # {}
                    /\ parent \in Enclosing(j) /\ \A v \in Enclosing(j) : v <= parent}
    IN CHOOSE j \in arcs : \A l \in arcs : j <= l

\* C16: with a graph, no arc line of the input is passed through, and the
\* synthesized arcs of a parent are all emitted at the first arc line of that
\* parent; its later arc lines give no output.
C16_ArcsReplacedOncePerParent ==
    (fphase = "done" /\ withGraph)
    => /\ \A i \in 1..Len(def_lines) : IsArcLine(i) => Passed(i) = {}
       /\ \A k \in 1..Len(out) :
             IsArcLine(outAt[k].at)
             => /\ outAt[k].kind = "new"
                /\ Enclosing(outAt[k].at) # {}
                /\ outAt[k].at = FirstArcLine(outAt[k].at)
       /\ \A k \in 1..Len(out) : outAt[k].kind = "new" => IsArcLine(outAt[k].at)

\* B is trimmed from G: the two arc lines of G give the one bridging arc
\* A -> C, at the place of the first
C16_Witness ==
    /\ fphase = "done"
    /\ withGraph
    /\ need = {pG, pGA, pGC}
    /\ gEdges # <<>>
    /\ out = Text(<<"unit=G,,u,;", "{", "\tty=n;", "\tar=(f=A,t=C,seq);",
                    "\tunit=A,,u,;", "\t{", "\t\tty=j;", "\t}",
                    "\tunit=C,,u,;", "\t{", "\t\tty=j;", "\t}", "}">>)

(***************************************************************************)
(* The three runs as the handlers drive them: inout_start_job and          *)
(* analyze_ajs_jobs (ajs_inout_logic.py), dep_start_job                    *)
(* (ajs_depend_logic.py), pre_start_job (ajs_rel_logic.py)                 *)
(***************************************************************************)
\* a byte of stderr that the run's encoding cannot decode
BadByte == "byte-81"

\* bytes.decode(enc, 'ignore')
DecodeIgnore(bytes) == SelectSeq(bytes, LAMBDA b : b # BadByte)

NoException == [type |-> "none", text |-> <<>>]
ValueError(text) == [type |-> "ValueError", text |-> Chars(text)]

\* an error message that leaves the stderr text out
RuntimeErrorBare(prefix, err) == [type |-> "RuntimeError", text |-> Chars(prefix)]

\* RuntimeError(f"<prefix>{err}"), err decoded from the stderr of the command
RuntimeError(prefix, err) ==
    [type |-> "RuntimeError", text |-> Chars(prefix) \o DecodeIgnore(err)]

Event(ev, what, status, err) == [ev |-> ev, what |-> what, status |-> status, err |-> err]

\* what a write to a local file can answer: success, or the text of the
\* exception it raises (the file has been opened for writing by then)
LocalAnswers == {[status |-> 0, err |-> <<>>], [status |-> 1, err |-> Chars("cannot write")]}

\* the events of the steps performed: those up to the first that raised
Performed(steps) ==
    LET firstBad == IF \A i \in 1..Len(steps) : steps[i].a.status = 0 THEN Len(steps)
                    ELSE CHOOSE i \in 1..Len(steps) :
                           /\ steps[i].a.status # 0
                           /\ \A j \in 1..(i - 1) : steps[j].a.status = 0
    IN  [i \in 1..firstBad |-> Event(steps[i].ev, steps[i].what, steps[i].a.status, steps[i].a.err)]

\* what a remote command can answer: success, or a failure with its stderr
Answers ==
    {[status |-> 0, err |-> <<>>]}
    \cup {[status |-> 1, err |-> e] : e \in {Chars("KAVS0161-I"), <<"n", "o", BadByte, "!">>}}

\* line 456: current_key
CacheKey(g) == <<g.ajs, g.res, g.bank, g.host, g.user>>

\* a check that lets every input through
NothingMissing(g) == FALSE

\* line 464: not all([ajs_path, res_root, bank])
MissingAnalysisInput(g) == g.ajs = <<>> \/ g.res = <<>> \/ g.bank = <<>>

\* a cache that is never consulted
CacheNeverHit(use_cache, key, cache) == FALSE

\* line 458: use_cache and current_key in _ANALYSIS_CACHE
CacheHit(use_cache, key, cache) == use_cache /\ key \in DOMAIN cache

\* the files under the resource root, by name: whether open() succeeds and
\* the lines read
ResourceFiles ==
    [name \in {Chars("ok.sh"), Chars("un.sh"), Chars("hid.sh"), Chars("bad.sh"), Chars("rm.sh"),
               Chars("r.ini")} |->
        IF name = Chars("rm.sh")
        THEN [readable |-> TRUE, lines |-> Text(<<"FILEO01=/t/a", "rm -f /t/a">>)]
        ELSE IF name = Chars("ok.sh")
        THEN [readable |-> TRUE, lines |-> Text(<<"FILEI01=/in", "FILEO01=/out">>)]
        ELSE IF name = Chars("un.sh")
        THEN [readable |-> TRUE, lines |-> Text(<<"FILEI01=${NONE}/x">>)]
        ELSE IF name = Chars("hid.sh")
        THEN [readable |-> TRUE, lines |-> Text(<<"FILEI01=$A">>)]
        ELSE IF name = Chars("bad.sh")
        THEN [readable |-> FALSE, lines |-> Text(<<"FILEO01=/out">>)]
        ELSE [readable |-> TRUE, lines |-> Text(<<"  FILEI01=$A/in ", "note", "FILEO01=/out">>)]]

Unit(unit_full, resource) ==
    [unit_full |-> Chars(unit_full), resource |-> Chars(resource), env |-> <<>>, param |-> <<>>]

\* the unit lists the remote command can list
UnitListMenu ==
    { <<>>,
      <<Unit("/G/U1", ""), Unit("/G/U2", "ok.sh")>>,
      <<Unit("/G/U1", "rm.sh")>>,
      <<Unit("/G/U1", "hid.sh"), Unit("/G/U2", "gone.sh"), Unit("/G/U3", "bad.sh")>>,
      <<Unit("/G/U1", "r.ini"), Unit("/G/U2", "gone.ini"), Unit("/G/U3", "un.sh")>> }

\* lines 541-548: the procedures of every script found under the resource
\* root; a script that cannot be read has the procedures parsed before the
\* error, none when open() fails
BuildShellCache(mapping) ==
    LET unique_shells == {mapping[i].resource : i \in {k \in 1..Len(mapping) :
                              /\ mapping[k].resource # <<>>
                              /\ ~EndsWith(mapping[k].resource, Chars(".ini"))}}
        found == unique_shells \cap DOMAIN ResourceFiles
    IN [sname \in found |->
          IF ResourceFiles[sname].readable
          THEN parse_shell_to_procedures(ResourceFiles[sname].lines)
          ELSE <<>>]

\* ShellExecutor(procedures, comenv_dict, ajs_record).execute()
RECURSIVE ExecuteFrom(_, _, _)
ExecuteFrom(ex, procs, i) ==
    IF i > Len(procs) THEN ex ELSE ExecuteFrom(ExecuteProc(ex, procs[i]), procs, i + 1)

Execute(procs, comenv_dict, record) ==
    ExecuteFrom([shell_context |-> init_context(comenv_dict, record.env, record.param),
                 inputs |-> <<>>, outputs |-> <<>>, unresolved |-> {}], procs, 1)

\* inout_parse_ini_resource: the values of one direction, sorted
IniValues(lines, is_input) ==
    Sorted({RES_PAT(StripIn(lines[i], WS)).val : i \in {k \in 1..Len(lines) :
        /\ RES_PAT(StripIn(lines[k], WS)).ok
        /\ IsInput(RES_PAT(StripIn(lines[k], WS)).io_groups) = is_input}})

\* inout_resolve_path_variables: resolved_paths
ResolvedPaths(paths, var_dict) ==
    [i \in 1..Len(paths) |->
        IF Contains(paths[i], "$") THEN Substitute(paths[i], var_dict) ELSE paths[i]]

\* inout_resolve_path_variables: unresolved_vars
UnresolvedVars(paths, var_dict) ==
    UNION {Range(FindAllFrom(Substitute(paths[i], var_dict), 1)) \ DOMAIN var_dict :
              i \in {k \in 1..Len(paths) : Contains(paths[k], "$")}}

\* lines 553-584 with no exception rules on disk: the final record of a unit.
\* The tags stand for the texts of lines 557, 568, 577, 579 and 581.
FinalRecord(record, var_dict, cache) ==
    LET done(inputs, outputs, tag) ==
            [unit_full |-> record.unit_full, resource |-> record.resource,
             inputs |-> inputs, outputs |-> outputs, source_tag |-> tag]
        ex == Execute(cache[record.resource], var_dict, record)
        ini == ResourceFiles[record.resource]
        raw_in == IF ini.readable THEN IniValues(ini.lines, TRUE) ELSE <<>>
        raw_out == IF ini.readable THEN IniValues(ini.lines, FALSE) ELSE <<>>
        unres == UnresolvedVars(raw_in, var_dict) \cup UnresolvedVars(raw_out, var_dict)
    IN IF record.resource = <<>> THEN done(<<>>, <<>>, "no resource given")
       ELSE IF record.resource \in DOMAIN cache
       THEN done(ex.inputs, ex.outputs,
                 IF ex.unresolved # {} THEN "analysis failed: unresolved"
                 ELSE IF ex.inputs = <<>> /\ ex.outputs = <<>> THEN "shell analysis (no IO)"
                 ELSE "shell analysis (resolved)")
       ELSE IF EndsWith(record.resource, Chars(".ini"))
       THEN IF record.resource \in DOMAIN ResourceFiles
            THEN done(ResolvedPaths(raw_in, var_dict), ResolvedPaths(raw_out, var_dict),
                      IF unres # {} THEN "analysis failed: unresolved"
                      ELSE IF raw_in # <<>> \/ raw_out # <<>> THEN "pattern (resolved)"
                      ELSE "pattern (no IO)")
            ELSE done(<<>>, <<>>, "unknown (no resource file)")
       ELSE done(<<>>, <<>>, "unknown (not analysed)")

\* the inputs of the I/O analysis: all given, or one of the three missing
AnalysisInputMenu ==
    { [ajs |-> Chars("/G"), res |-> Chars("/res"), bank |-> Chars("other")],
      [ajs |-> <<>>, res |-> Chars("/res"), bank |-> Chars("other")],
      [ajs |-> Chars("/G"), res |-> <<>>, bank |-> Chars("other")],
      [ajs |-> Chars("/G"), res |-> Chars("/res"), bank |-> <<>>] }

\* what the user may have set before a run is started: the handler, the
\* analysis inputs, the JP1 host, the variables typed for the bank 'other',
\* the target files of the dependency run, root and target of the
\* predecessor run
RunMenu ==
    { [kind |-> k, ajs |-> a.ajs, res |-> a.res, bank |-> a.bank, host |-> h,
       user |-> Chars("jp1"), custom_vars |-> c, targets |-> t, root |-> <<>>, tgt |-> <<>>] :
         k \in {"inout"}, a \in AnalysisInputMenu, h \in {Chars("h1"), Chars("h2")},
         c \in {EmptyDict, (<<"A">> :> Chars("$B")) @@ (<<"B">> :> <<"x">>)}, t \in {<<>>} }
    \cup
    { [kind |-> k, ajs |-> a.ajs, res |-> a.res, bank |-> a.bank, host |-> h,
       user |-> Chars("jp1"), custom_vars |-> c, targets |-> t, root |-> <<>>, tgt |-> <<>>] :
         k \in {"dep"}, a \in AnalysisInputMenu, h \in {Chars("h1"), Chars("h2")},
         c \in {EmptyDict}, t \in {<<>>, <<" ", "\n">>, Chars("out.txt")} }
    \cup
    { [kind |-> "pre", ajs |-> <<>>, res |-> <<>>, bank |-> <<>>, host |-> Chars("h1"),
       user |-> Chars("jp1"), custom_vars |-> EmptyDict, targets |-> <<>>, root |-> r, tgt |-> t] :
         r \in {<<>>, Chars("/R/G")}, t \in {<<>>, Chars("/R/G/A")} }

InitRun ==
    /\ InitRel /\ base = pRoot /\ IdleArc /\ IdleDep /\ IdleEnv /\ IdleFil
    /\ pc = "idle"
    /\ gui_vars = <<>>
    /\ call = <<>>
    /\ ANALYSIS_CACHE = EmptyDict
    /\ trace = <<>>
    /\ raised = NoException
    /\ reported = [kind |-> "none", text |-> <<>>]
    /\ ajs_mapping_list = <<>>
    /\ shell_cache = EmptyDict
    /\ anl_records = <<>>
    /\ returned = <<>>
    /\ notices = <<>>
    /\ status_var = "idle"
    /\ threads = <<>>

Others == <<relVars, arcVars, depVars, envVars, filVars, threads>>

\* a handler that leaves the status as its last step set it
WithoutFinally(status) == status

\* finally: update_status of the idle text, whatever the try block did
Finally(status) == "idle"

\* show_info(msg): the notice, then update_status of the completion text
show_info == [notice |-> "info", status |-> "complete"]

\* show_error(msg): the notice, then update_status of the error text
show_error == [notice |-> "error", status |-> "error"]

\* the user starts a handler: its parameters are read and nothing of the
\* previous run is left but the cache and the status shown
StartRun ==
    /\ pc \in {"idle", "done"}
    /\ gui_vars' \in RunMenu
    /\ pc' = gui_vars'.kind
    /\ call' = <<>>
    /\ trace' = <<>>
    /\ raised' = NoException
    /\ reported' = [kind |-> "none", text |-> <<>>]
    /\ ajs_mapping_list' = <<>>
    /\ shell_cache' = EmptyDict
    /\ anl_records' = <<>>
    /\ returned' = <<>>
    /\ UNCHANGED ANALYSIS_CACHE
    /\ notices' = <<>>
    /\ UNCHANGED status_var
    /\ UNCHANGED Others

\* the call of analyze_ajs_jobs: what it is called with, and what the cache
\* held for its key at that moment
Called(use_cache, ret) ==
    [use_cache |-> use_cache, ret |-> ret, mark |-> Len(trace),
     stored |-> IF CacheKey(gui_vars) \in DOMAIN ANALYSIS_CACHE
                THEN <<ANALYSIS_CACHE[CacheKey(gui_vars)]>> ELSE <<>>]

\* inout_start_job, line 612
InoutCall ==
    /\ pc = "inout"
    /\ call' = Called(FALSE, "inout_finish")
    /\ pc' = "analyze"
    /\ UNCHANGED <<gui_vars, ANALYSIS_CACHE, trace, raised, reported, ajs_mapping_list,
                   shell_cache, anl_records, returned>>
    /\ UNCHANGED <<notices, status_var>>
    /\ UNCHANGED Others

\* inout_start_job, lines 614-637: the result is written and shown
InoutFinish ==
    /\ pc = "inout_finish"
    /\ reported' = [kind |-> "info", text |-> <<>>]
    /\ pc' = "done"
    /\ UNCHANGED <<gui_vars, call, ANALYSIS_CACHE, trace, raised, ajs_mapping_list,
                   shell_cache, anl_records, returned>>
    /\ notices' = Append(notices, show_info.notice)
    /\ status_var' = Finally(show_info.status)
    /\ UNCHANGED Others

\* analyze_ajs_jobs, lines 456-499: cache, required inputs, shared script
AnalyzeEnter ==
    /\ pc = "analyze"
    /\ IF CacheHit(call.use_cache, CacheKey(gui_vars), ANALYSIS_CACHE)
       THEN /\ returned' = ANALYSIS_CACHE[CacheKey(gui_vars)]
            /\ pc' = call.ret
            /\ UNCHANGED <<raised, trace>>
       ELSE IF MissingAnalysisInput(gui_vars)
       THEN /\ raised' = ValueError("analysis inputs missing")
            /\ pc' = "except"
            /\ UNCHANGED <<returned, trace>>
       ELSE /\ trace' = Append(trace, Event("parse", "comenv", 0, <<>>))
            /\ pc' = "anl_command"
            /\ UNCHANGED <<returned, raised>>
    /\ UNCHANGED <<gui_vars, call, ANALYSIS_CACHE, reported, ajs_mapping_list, shell_cache,
                   anl_records>>
    /\ status_var' = IF CacheHit(call.use_cache, CacheKey(gui_vars), ANALYSIS_CACHE)
                     THEN "restoring the analysis from the cache"
                     ELSE IF MissingAnalysisInput(gui_vars) THEN status_var
                     ELSE "fetching the unit list"
    /\ UNCHANGED notices
    /\ UNCHANGED Others

\* analyze_ajs_jobs, lines 518-524: the connection and the listing command
\* a command step that records an empty result when the command fails
AnalyzeCommandStoring ==
    /\ pc = "anl_command"
    /\ \E a \in Answers :
         /\ trace' = trace \o <<Event("connect", "ssh", 0, <<>>),
                                Event("exec", "ajsprint units", a.status, a.err)>>
         /\ IF a.status # 0
            THEN /\ raised' = RuntimeError("AJS command error: ", a.err)
                 /\ pc' = "except"
                 /\ ANALYSIS_CACHE' = DictSet(ANALYSIS_CACHE, CacheKey(gui_vars), <<>>)
            ELSE /\ pc' = "anl_download"
                 /\ UNCHANGED <<raised, ANALYSIS_CACHE>>
    /\ UNCHANGED <<gui_vars, call, reported, ajs_mapping_list, shell_cache,
                   anl_records, returned>>
    /\ UNCHANGED <<notices, status_var>>
    /\ UNCHANGED Others

AnalyzeCommand ==
    /\ pc = "anl_command"
    /\ \E a \in Answers :
         /\ trace' = trace \o <<Event("connect", "ssh", 0, <<>>),
                                Event("exec", "ajsprint units", a.status, a.err)>>
         /\ IF a.status # 0
            THEN /\ raised' = RuntimeError("AJS command error: ", a.err)
                 /\ pc' = "except"
            ELSE /\ pc' = "anl_download"
                 /\ UNCHANGED raised
    /\ UNCHANGED <<gui_vars, call, ANALYSIS_CACHE, reported, ajs_mapping_list, shell_cache,
                   anl_records, returned>>
    /\ UNCHANGED <<notices, status_var>>
    /\ UNCHANGED Others

\* analyze_ajs_jobs, lines 525-548: the download, the clean-up command whose
\* status is not read, the unit list and the procedures of the scripts
AnalyzeDownload ==
    /\ pc = "anl_download"
    /\ \E a \in Answers :
         trace' = trace \o <<Event("get", "unit list", 0, <<>>),
                             Event("exec", "rm", a.status, a.err),
                             Event("parse", "unit list", 0, <<>>)>>
    /\ ajs_mapping_list' \in UnitListMenu
    /\ shell_cache' = BuildShellCache(ajs_mapping_list')
    /\ anl_records' = <<>>
    /\ pc' = "anl_record"
    /\ UNCHANGED <<gui_vars, call, ANALYSIS_CACHE, raised, reported, returned>>
    /\ status_var' = "resolving I/O variables"
    /\ UNCHANGED notices
    /\ UNCHANGED Others

\* analyze_ajs_jobs, lines 552-584: one turn of the record loop; no shared
\* script was found, so that the table of every unit is initial_vars
AnalyzeRecord ==
    /\ pc = "anl_record"
    /\ Len(anl_records) < Len(ajs_mapping_list)
    /\ anl_records' = Append(anl_records,
           FinalRecord(ajs_mapping_list[Len(anl_records) + 1], gui_vars.custom_vars, shell_cache))
    /\ UNCHANGED <<pc, gui_vars, call, ANALYSIS_CACHE, trace, raised, reported,
                   ajs_mapping_list, shell_cache, returned>>
    /\ UNCHANGED <<notices, status_var>>
    /\ UNCHANGED Others

\* analyze_ajs_jobs, lines 586-591
AnalyzeReturn ==
    /\ pc = "anl_record"
    /\ Len(anl_records) = Len(ajs_mapping_list)
    /\ ANALYSIS_CACHE' = DictSet(ANALYSIS_CACHE, CacheKey(gui_vars), anl_records)
    /\ returned' = anl_records
    /\ pc' = call.ret
    /\ UNCHANGED <<gui_vars, call, trace, raised, reported, ajs_mapping_list, shell_cache,
                   anl_records>>
    /\ UNCHANGED <<notices, status_var>>
    /\ UNCHANGED Others

\* dep_start_job, lines 98-103: no target file
NoTarget(targets) ==
    \/ StripIn(targets, WS \cup {"\n"}) = <<>>
    \/ \A i \in 1..Len(Split(StripIn(targets, WS \cup {"\n"}), "\n")) :
          StripIn(Split(StripIn(targets, WS \cup {"\n"}), "\n")[i], WS) = <<>>

\* dep_start_job, lines 97-122
DepCheck ==
    /\ pc = "dep"
    /\ IF NoTarget(gui_vars.targets)
       THEN /\ raised' = ValueError("target files missing")
            /\ pc' = "except"
            /\ UNCHANGED call
       ELSE /\ call' = Called(TRUE, "dep_command")
            /\ pc' = "analyze"
            /\ UNCHANGED raised
    /\ UNCHANGED <<gui_vars, ANALYSIS_CACHE, trace, reported, ajs_mapping_list, shell_cache,
                   anl_records, returned>>
    /\ status_var' = IF NoTarget(gui_vars.targets) THEN status_var ELSE "running the I/O analysis"
    /\ UNCHANGED notices
    /\ UNCHANGED Others

\* dep_start_job, lines 124-221: after the trace, the connection and the two
\* commands, one per step
DepCommand ==
    /\ pc \in {"dep_command", "dep_command2"}
    /\ \E a \in Answers :
         /\ trace' = trace
                \o (IF pc = "dep_command" THEN <<Event("connect", "ssh", 0, <<>>)>> ELSE <<>>)
                \o <<Event("exec", IF pc = "dep_command" THEN "ajsprint definition"
                                   ELSE "ajsprint relations", a.status, a.err)>>
         /\ IF a.status # 0
            THEN /\ raised' = RuntimeError(IF pc = "dep_command" THEN "AJS definition error: "
                                           ELSE "AJS relation error: ", a.err)
                 /\ pc' = "except"
            ELSE /\ pc' = IF pc = "dep_command" THEN "dep_command2" ELSE "dep_download"
                 /\ UNCHANGED raised
    /\ UNCHANGED <<gui_vars, call, ANALYSIS_CACHE, reported, ajs_mapping_list, shell_cache,
                   anl_records, returned>>
    /\ status_var' = IF pc = "dep_command" THEN "fetching definition and relations" ELSE status_var
    /\ UNCHANGED notices
    /\ UNCHANGED Others

\* dep_start_job, lines 223-227
DepDownload ==
    /\ pc = "dep_download"
    /\ \E a \in Answers :
         trace' = trace \o <<Event("get", "definition", 0, <<>>),
                             Event("get", "relations", 0, <<>>),
                             Event("exec", "rm", a.status, a.err)>>
    /\ pc' = "dep_filter"
    /\ UNCHANGED <<gui_vars, call, ANALYSIS_CACHE, raised, reported, ajs_mapping_list,
                   shell_cache, anl_records, returned>>
    /\ UNCHANGED <<notices, status_var>>
    /\ UNCHANGED Others

\* dep_start_job, lines 229-266
DepFilter ==
    /\ pc = "dep_filter"
    /\ \E w \in LocalAnswers, m \in LocalAnswers, h \in LocalAnswers, ext \in BOOLEAN :
         LET steps == <<[ev |-> "write", what |-> "recovery_definition", a |-> w]>>
                      \o (IF ext THEN <<[ev |-> "write", what |-> "missing_files", a |-> m]>>
                          ELSE <<>>)
                      \o <<[ev |-> "save_hist", what |-> "history", a |-> h]>>
         IN  /\ (~ext => m.status = 0)
             /\ (w.status # 0 => m.status = 0 /\ ~ext)
             /\ (w.status # 0 \/ m.status # 0 => h.status = 0)
             /\ trace' = trace \o <<Event("graph", "pre_parse_graph", 0, <<>>),
                                    Event("filter", "pre_filter_definition", 0, <<>>)>>
                               \o Performed(steps)
             /\ IF Performed(steps)[Len(Performed(steps))].status = 0
                THEN /\ reported' = [kind |-> "info", text |-> <<>>]
                     /\ pc' = "done"
                     /\ notices' = Append(notices, show_info.notice)
                     /\ status_var' = Finally(show_info.status)
                     /\ UNCHANGED raised
                ELSE /\ raised' = [type |-> "OSError", text |-> Performed(steps)[Len(Performed(steps))].err]
                     /\ pc' = "except"
                     /\ status_var' = IF Performed(steps)[Len(Performed(steps))].ev = "save_hist"
                                      THEN "complete" ELSE "building the graph"
                     /\ UNCHANGED <<reported, notices>>
    /\ UNCHANGED <<gui_vars, call, ANALYSIS_CACHE, ajs_mapping_list, shell_cache,
                   anl_records, returned>>
    /\ UNCHANGED Others

\* pre_start_job, lines 285-288
PreCheck ==
    /\ pc = "pre"
    /\ IF StripIn(gui_vars.root, WS) = <<>> \/ StripIn(gui_vars.tgt, WS) = <<>>
       THEN /\ raised' = ValueError("root and target unit missing")
            /\ pc' = "except"
       ELSE /\ pc' = "pre_command"
            /\ UNCHANGED raised
    /\ UNCHANGED <<gui_vars, call, ANALYSIS_CACHE, trace, reported, ajs_mapping_list,
                   shell_cache, anl_records, returned>>
    /\ UNCHANGED <<notices, status_var>>
    /\ UNCHANGED Others

\* pre_start_job, lines 305-330: the connection and the two commands, one
\* per step
PreCommand ==
    /\ pc \in {"pre_command", "pre_command2"}
    /\ \E a \in Answers :
         /\ trace' = trace
                \o (IF pc = "pre_command" THEN <<Event("connect", "ssh", 0, <<>>)>> ELSE <<>>)
                \o <<Event("exec", IF pc = "pre_command" THEN "ajsprint definition"
                                   ELSE "ajsprint relations", a.status, a.err)>>
         /\ IF a.status # 0
            THEN /\ raised' = RuntimeError(IF pc = "pre_command" THEN "definition error:\n"
                                           ELSE "relation error:\n", a.err)
                 /\ pc' = "except"
            ELSE /\ pc' = IF pc = "pre_command" THEN "pre_command2" ELSE "pre_download"
                 /\ UNCHANGED raised
    /\ UNCHANGED <<gui_vars, call, ANALYSIS_CACHE, reported, ajs_mapping_list, shell_cache,
                   anl_records, returned>>
    /\ status_var' = IF pc = "pre_command" THEN "ajsprint (1/2)" ELSE "ajsprint (2/2)"
    /\ UNCHANGED notices
    /\ UNCHANGED Others

\* pre_start_job, lines 332-340
PreDownload ==
    /\ pc = "pre_download"
    /\ \E a \in Answers :
         trace' = trace \o <<Event("get", "definition", 0, <<>>),
                             Event("get", "relations", 0, <<>>),
                             Event("exec", "rm", a.status, a.err)>>
    /\ pc' = "pre_filter"
    /\ UNCHANGED <<gui_vars, call, ANALYSIS_CACHE, raised, reported, ajs_mapping_list,
                   shell_cache, anl_records, returned>>
    /\ status_var' = "fetching the files"
    /\ UNCHANGED notices
    /\ UNCHANGED Others

\* pre_start_job, lines 342-373
PreFilter ==
    /\ pc = "pre_filter"
    /\ \E w \in LocalAnswers, h \in LocalAnswers :
         LET steps == <<[ev |-> "write", what |-> "recovery_definition", a |-> w],
                        [ev |-> "save_hist", what |-> "history", a |-> h]>>
         IN  /\ (w.status # 0 => h.status = 0)
             /\ trace' = trace \o <<Event("graph", "pre_parse_graph", 0, <<>>),
                                    Event("filter", "pre_filter_definition", 0, <<>>)>>
                               \o Performed(steps)
             /\ IF Performed(steps)[Len(Performed(steps))].status = 0
                THEN /\ reported' = [kind |-> "info", text |-> <<>>]
                     /\ pc' = "done"
                     /\ notices' = Append(notices, show_info.notice)
                     /\ status_var' = Finally(show_info.status)
                     /\ UNCHANGED raised
                ELSE /\ raised' = [type |-> "OSError", text |-> Performed(steps)[Len(Performed(steps))].err]
                     /\ pc' = "except"
                     /\ status_var' = IF Performed(steps)[Len(Performed(steps))].ev = "save_hist"
                                      THEN "complete" ELSE "generating the recovery definition"
                     /\ UNCHANGED <<reported, notices>>
    /\ UNCHANGED <<gui_vars, call, ANALYSIS_CACHE, ajs_mapping_list, shell_cache,
                   anl_records, returned>>
    /\ UNCHANGED Others

\* the except clause of the three handlers: show_error(str(e))
Except ==
    /\ pc = "except"
    /\ reported' = [kind |-> "error", text |-> raised.text]
    /\ pc' = "done"
    /\ UNCHANGED <<gui_vars, call, ANALYSIS_CACHE, trace, raised, ajs_mapping_list,
                   shell_cache, anl_records, returned>>
    /\ notices' = Append(notices, show_error.notice)
    /\ status_var' = Finally(show_error.status)
    /\ UNCHANGED Others

NextRun ==
    \/ StartRun \/ InoutCall \/ InoutFinish
    \/ AnalyzeEnter \/ AnalyzeCommand \/ AnalyzeDownload \/ AnalyzeRecord \/ AnalyzeReturn
    \/ DepCheck \/ DepCommand \/ DepDownload \/ DepFilter
    \/ PreCheck \/ PreCommand \/ PreDownload \/ PreFilter
    \/ Except

SpecRun == InitRun /\ [][NextRun]_vars

(***************************************************************************)
(* Properties of the runs                                                  *)
(***************************************************************************)
Remote == {"connect", "exec", "get"}

\* the steps of the run since analyze_ajs_jobs was called
SinceCall == SubSeq(trace, call.mark + 1, Len(trace))

\* the analysis was called with the cache in use and an entry under its key
HitCall == call # <<>> /\ call.use_cache /\ call.stored # <<>>

\* C17: a call of analyze_ajs_jobs with the cache in use and an entry under
\* its key never gets to the remote command, the download or the parsing,
\* and at its return no step was taken since the call and the stored result
\* is what the caller has.
C17_CacheHitShortCircuits ==
    HitCall
    => /\ pc \notin {"anl_command", "anl_download", "anl_record"}
       /\ pc \in {"analyze", call.ret} => SinceCall = <<>>
       /\ pc = call.ret => returned = call.stored[1]

\* a dependency run is handed the three records an earlier analysis stored
C17_Witness ==
    /\ HitCall
    /\ pc = "dep_command"
    /\ trace = <<>>
    /\ Len(returned) = 3
    /\ returned = ANALYSIS_CACHE[CacheKey(gui_vars)]

Blank(text) == \A i \in 1..Len(text) : text[i] \in {" ", "\t", "\n"}

\* a required input of the run is missing
MissingRequired ==
    /\ gui_vars # <<>>
    /\ \/ gui_vars.kind = "dep" /\ Blank(gui_vars.targets)
       \/ gui_vars.kind = "pre" /\ (Blank(gui_vars.root) \/ Blank(gui_vars.tgt))
       \/ /\ gui_vars.kind \in {"inout", "dep"}
          /\ (gui_vars.ajs = <<>> \/ gui_vars.res = <<>> \/ gui_vars.bank = <<>>)

\* C18: in a run with a required input missing no connection is opened, no
\* remote command is run and no file is transferred at any point, and the
\* run ends with an error reported.
C18_MissingInputNoRemote ==
    MissingRequired
    => /\ \A k \in 1..Len(trace) : trace[k].ev \notin Remote
       /\ pc = "done" => reported.kind = "error"

\* a dependency run with target files and no scope path
C18_Witness ==
    /\ MissingRequired
    /\ pc = "done"
    /\ gui_vars.kind = "dep" /\ gui_vars.targets = Chars("out.txt") /\ gui_vars.ajs = <<>>
    /\ reported = [kind |-> "error", text |-> Chars("analysis inputs missing")]
    /\ trace = <<>>

IsInfix(part, text) == FindFrom(text, 1, part) > 0

Failed(k) == trace[k].ev = "exec" /\ trace[k].status # 0

Aborted(k) == \A j \in (k + 1)..Len(trace) : trace[j].ev \notin {"exec", "get", "graph", "filter"}

SoftFailure(record) ==
    /\ record.resource # <<>>
    /\ \/ record.resource \notin DOMAIN ResourceFiles
       \/ ~ResourceFiles[record.resource].readable
       \/ \E k \in 1..Len(record.inputs) : StillDynamic(record.inputs[k])
       \/ \E k \in 1..Len(record.outputs) : StillDynamic(record.outputs[k])

FailureTags == {"analysis failed: unresolved", "unknown (no resource file)", "unknown (not analysed)"}

\* C20: the final records are those of the units of the list, one each and
\* in the order of the list, when the analysis returns, and the tag of a
\* unit with a soft failure records the failure.
C20_OneTaggedRecordPerUnit ==
    /\ Len(anl_records) <= Len(ajs_mapping_list)
    /\ pc \in {"inout_finish", "dep_command"} /\ ~HitCall
       => Len(returned) = Len(ajs_mapping_list)
    /\ \A i \in 1..Len(anl_records) :
          /\ anl_records[i].unit_full = ajs_mapping_list[i].unit_full
          /\ SoftFailure(anl_records[i]) => anl_records[i].source_tag \in FailureTags

(***************************************************************************)
(* The end of a run                                                        *)
(***************************************************************************)
\* the steps a started handler takes by itself, one after the other in its
\* thread; the turns of the record loop are AnalyzeRecord
RunStep ==
    \/ InoutCall \/ InoutFinish
    \/ AnalyzeEnter \/ AnalyzeCommand \/ AnalyzeDownload \/ AnalyzeReturn
    \/ DepCheck \/ DepCommand \/ DepDownload \/ DepFilter
    \/ PreCheck \/ PreCommand \/ PreDownload \/ PreFilter
    \/ Except

\* the guard of AnalyzeRecord: a unit of the list has no record yet
RecordPending == pc = "anl_record" /\ Len(anl_records) < Len(ajs_mapping_list)

\* WF_vars(AnalyzeRecord), with the guard of the action for its ENABLED
FairRecord == []<>(~RecordPending) \/ []<><<AnalyzeRecord>>_vars

\* the runs when every remote call returns: a started handler goes on
SpecRunFair == SpecRun /\ WF_vars(RunStep) /\ FairRecord

Started == pc \notin {"idle", "done"}

\* no retrieval command is issued a second time in a run
IssuedOnce ==
    \A k, j \in 1..Len(trace) :
        (k < j /\ trace[k].ev = "exec" /\ trace[j].ev = "exec" /\ trace[k].what = trace[j].what)
        => trace[k].what = "rm"

OnChain(n) == n = target \/ \E e \in Range(gEdges) : e[1] = n /\ e[2] \in need

\* C22: at the return of pre_compute_need, every graph node below a node of
\* the need-set that is the target or a predecessor of a node of the
\* need-set is in the need-set.
C22_ChainDescendantsInNeed ==
    NeedDone => \A n \in need : OnChain(n) => Range(pre_descendants(gNodes, n)) \subseteq need

\* the guard of NeedStep: "while q"
NeedPending == rphase = "need" /\ q # <<>>

\* WF_vars(NeedStep), with the guard of the action for its ENABLED
FairNeed == []<>(~NeedPending) \/ []<><<NeedStep>>_vars

\* the predecessor run when the loop of pre_compute_need goes on while the
\* worklist is not empty
SpecNeedFair == SpecNeed /\ FairNeed

\* the graph has a precedence cycle
HasCycle == \E n \in Range(gNodes) : n \in PathPreds(gEdges, n)

\* C23: pre_compute_need, once called, returns, and no path is added to the
\* need-set twice.
C23_NeedTerminates ==
    /\ [](\A i, j \in 1..Len(needLog) : i < j => needLog[i][1] # needLog[j][1])
    /\ [](rphase = "need" => <>NeedDone)

\* the need-set of a unit on a precedence cycle
C23_Witness ==
    /\ NeedDone
    /\ HasCycle
    /\ target \in PathPreds(gEdges, target)
    /\ Len(needLog) >= 3
    /\ need = {needLog[i][1] : i \in 1..Len(needLog)}

(***************************************************************************)
(* The reverse producer trace: once each, termination                      *)
(***************************************************************************)
NoRepeat(s) == \A i, j \in 1..Len(s) : i < j => s[i] # s[j]

\* C24: no file is taken from the queue twice and no unit is added to the
\* needed units twice, whatever the target list.
C24_EachFileAndUnitOnce == NoRepeat(dequeued) /\ NoRepeat(added_units)

\* the guard of DepStep: "while queue"
TracePending == dphase = "trace" /\ dqueue # <<>>

\* WF_vars(DepStep), with the guard of the action for its ENABLED
FairTrace == []<>(~TracePending) \/ []<><<DepStep>>_vars

\* the dependency run when the loop of the trace goes on while the queue is
\* not empty
SpecDepFair == SpecDep /\ FairTrace

\* the files the records declare as inputs
DeclaredInputs ==
    UNION {Range(final_records[i].inputs) : i \in 1..Len(final_records)} \ {""}

\* a file is produced from itself, directly or through a second unit
CyclicFiles ==
    \E f \in DeclaredInputs : f \in InputsOf(ProducersOf(BackwardFiles({f}) ))

\* C25: the trace, once started, ends; the files taken from the queue and
\* those waiting in it are never more than the targets and the declared
\* inputs, each once.
C25_TraceTerminates ==
    /\ [](dphase = "trace" =>
            Len(dequeued) + Len(dqueue) <= Len(target_files) + Cardinality(DeclaredInputs))
    /\ [](dphase = "trace" => <>DepDone)

\* two units that consume each other's outputs, both needed
C25_Witness ==
    /\ DepDone
    /\ target_files = <<"out.txt">>
    /\ final_records =
         <<[unit_full |-> "/U1", inputs |-> <<"mid.txt">>, outputs |-> <<"out.txt">>],
           [unit_full |-> "/U2", inputs |-> <<"out.txt">>, outputs |-> <<"mid.txt">>]>>
    /\ CyclicFiles
    /\ needed_units = {"/U1", "/U2"}
    /\ dequeued = <<"out.txt", "mid.txt">>


(***************************************************************************)
(* C26: ComenvParser._resolve_value makes at most ten passes               *)
(***************************************************************************)
\* the value after k substitution passes
RECURSIVE Passes(_, _, _)
Passes(value, var_dict, k) ==
    IF k = 0 THEN value ELSE Passes(Substitute(value, var_dict), var_dict, k - 1)

\* C26: the resolution of an assigned value makes at most ten substitution
\* passes and stores the value of its last pass, self-referential and
\* mutually recursive definitions included; when it stops before the tenth
\* pass the last pass changed nothing.
C26_ResolveStopsAfterTenPasses ==
    (ephase = "replay" /\ replay.stored)
    => /\ replay.passes <= 10
       /\ replay.value = Passes(replay.template, replay.before, replay.passes)
       /\ replay.capped <=> (replay.passes = 10
                             /\ Passes(replay.template, replay.before, 9) # replay.value)
       /\ ~replay.capped => Substitute(replay.value, replay.before) = replay.value

\* C=$A against A=x$B, B=yx$B: every one of the ten passes lengthens the value
C26_Witness ==
    /\ ephase = "replay"
    /\ replay.stored
    /\ replay.name = Chars("C")
    /\ replay.template = Chars("$A")
    /\ Chars("A") \in DOMAIN replay.before /\ Chars("B") \in DOMAIN replay.before
    /\ replay.before[Chars("A")] = Chars("x$B")
    /\ replay.before[Chars("B")] = Chars("yx$B")
    /\ replay.passes = 10
    /\ Len(replay.value) > Len(replay.template) + 10


(***************************************************************************)
(* C27: which branch of a case instance the replay activates               *)
(***************************************************************************)
LineStripped(i) == StripIn(comenv_lines[i], WS)

IsCaseLine(i) == StartsWith(LineStripped(i), Chars("case")) /\ CaseVarSearch(LineStripped(i)).ok

IsEsacLine(i) == StartsWith(LineStripped(i), Chars("esac"))

\* the case lines of the instances open after line i of the script, innermost last
RECURSIVE OpenCases(_)
OpenCases(i) ==
    IF i = 0 THEN <<>>
    ELSE LET open == OpenCases(i - 1)
         IN IF IsCaseLine(i) THEN Append(open, i)
            ELSE IF IsEsacLine(i) /\ open # <<>> THEN SubSeq(open, 1, Len(open) - 1)
            ELSE open

\* the case line of the instance line i is a branch pattern line of, 0 when
\* line i is no pattern line
InstanceOfBranch(i) ==
    IF \/ LineStripped(i) = <<>>
       \/ \E p \in {"#", "if", "else", "fi", "case", "esac"} : StartsWith(LineStripped(i), Chars(p))
       \/ OpenCases(i) = <<>>
       \/ ~PatternOf(LineStripped(i)).ok
    THEN 0
    ELSE OpenCases(i)[Len(OpenCases(i))]

BranchLines(c) == {i \in 1..Len(comenv_lines) : InstanceOfBranch(i) = c}

BranchPattern(i) == PatternOf(LineStripped(i)).key

\* the value the combination under replay assigns the variable of instance c
AssignedValue(c) ==
    DictGet(PatternMap(scan.case_vars_order, combinations[combo]),
            CaseVarSearch(LineStripped(c)).key, Star)

Lowest(S) == CHOOSE i \in S : \A j \in S : i <= j

\* the branch line the instance is to activate: the first literal branch
\* equal to the assigned value, else the first wildcard branch, else none
ExpectedBranch(c) ==
    LET literal == {i \in BranchLines(c) :
                       BranchPattern(i) # Star /\ BranchPattern(i) = AssignedValue(c)}
        wildcard == {i \in BranchLines(c) : BranchPattern(i) = Star}
    IN IF literal # {} THEN Lowest(literal)
       ELSE IF wildcard # {} THEN Lowest(wildcard)
       ELSE 0

\* C27: a branch pattern line activates exactly when it is the first literal
\* branch of its case instance that equals the combination's assigned value,
\* or, when the instance has no such branch, its first wildcard branch.
C27_FirstLiteralElseWildcard ==
    (ephase = "replay" /\ pos > 1 /\ InstanceOfBranch(pos - 1) # 0)
    => ((replay.is_pattern_line /\ replay.activated)
        <=> pos - 1 = ExpectedBranch(InstanceOfBranch(pos - 1)))


(***************************************************************************)
(* C28: assignments inside a branch that was not activated                 *)
(***************************************************************************)
\* the replay of the combination after the first k lines of the script
RECURSIVE ReplayUpTo(_)
ReplayUpTo(k) ==
    IF k = 0 THEN ReplayStart(initial_vars)
    ELSE LogInstances(ReplayStep(ReplayUpTo(k - 1), comenv_lines[k],
                                 PatternMap(scan.case_vars_order, combinations[combo])),
                      comenv_lines[k])

\* whether the replay activated the branch of pattern line b
BranchWasActivated(b) == ReplayUpTo(b).is_pattern_line /\ ReplayUpTo(b).activated

\* the pattern line of the branch of instance c that line i stands in, 0
\* when line i comes before the first branch of the instance
BranchOf(c, i) ==
    LET before == {j \in BranchLines(c) : j <= i}
    IN IF before = {} THEN 0 ELSE CHOOSE j \in before : \A k \in before : k <= j

\* the pattern lines of the branches line i stands in, one per open instance
EnclosingBranches(i) ==
    IF IsCaseLine(i) \/ IsEsacLine(i) THEN {}
    ELSE {BranchOf(OpenCases(i)[n], i) : n \in 1..Len(OpenCases(i))} \ {0}

BeginsWith(i, words) == \E w \in words : StartsWith(LineStripped(i), Chars(w))

\* between pattern line b of instance c and line i stands no if, else or fi
\* line, and instance c holds no case line before line i
PlainBranch(c, b, i) ==
    /\ \A j \in (b + 1)..i : ~BeginsWith(j, {"if", "else", "fi"})
    /\ \A j \in (c + 1)..i : ~BeginsWith(j, {"case"})

\* C28 as stated: a line inside a case branch that was not activated stores
\* no value, if, else and fi lines inside the branch included.
C28_InactiveBranchNeverAssigns ==
    (ephase = "replay" /\ pos > 1)
    => ((\E b \in EnclosingBranches(pos - 1) : ~BranchWasActivated(b)) => ~replay.stored)

\* C28: a line inside a case branch that was not activated stores no value
\* when no if, else or fi line stands between the branch's pattern line and
\* the line and the instance of the branch holds no nested case before it.
C28_PlainInactiveBranchNeverAssigns ==
    (ephase = "replay" /\ pos > 1)
    => \A b \in EnclosingBranches(pos - 1) :
          (~BranchWasActivated(b) /\ PlainBranch(InstanceOfBranch(b), b, pos - 1))
          => (~replay.stored /\ replay.current_vars = ReplayUpTo(b - 1).current_vars)

\* BASE=/p on its own line in the branch prod) while the combination assigns dev
C28_Witness ==
    /\ ephase = "replay"
    /\ pos > 2
    /\ comenv_lines[pos - 1] = Chars("BASE=/p")
    /\ comenv_lines[pos - 2] = Chars("prod)")
    /\ combinations[combo] = <<Chars("dev")>>
    /\ ~BranchWasActivated(pos - 2)
    /\ PlainBranch(InstanceOfBranch(pos - 2), pos - 2, pos - 1)
    /\ ~replay.stored


(***************************************************************************)
(* C29: the precedence of the values a unit's replay resolves with         *)
(***************************************************************************)
\* the names the unit's environment string gives a value
EnvNames == {BeforeFirst(item, "=") : item \in {x \in Range(Split(ajs_record.env, ";")) : Contains(x, "=")}}

\* the positional parameters of the unit, by their index
ParamNames == {Decimal(i) : i \in 1..Len(SplitWS(ajs_record.param))}

ParamValue(name) ==
    SplitWS(ajs_record.param)[CHOOSE i \in 1..Len(SplitWS(ajs_record.param)) : Decimal(i) = name]

\* the context before the first procedure: the shared table, under the
\* unit's environment pairs and positional parameters
UnitContext ==
    [name \in DOMAIN unit_var_dict \cup EnvNames \cup ParamNames |->
        IF name \in ParamNames THEN ParamValue(name)
        ELSE IF name \in EnvNames THEN UnitValue(ajs_record.env, name)
        ELSE unit_var_dict[name]]

\* the context before procedure k when ASSIGN procedures alone store values
RECURSIVE AssignContext(_)
AssignContext(k) ==
    IF k = 1 THEN UnitContext
    ELSE LET before == AssignContext(k - 1)
             proc == procedures[k - 1]
         IN IF proc.op = "ASSIGN"
            THEN DictSet(before, proc.name, Executor_resolve_value(before, proc.val))
            ELSE before

\* C29: an IO_ASSIGN is resolved with, for each variable, the value the most
\* recent earlier ASSIGN stored, else the unit's environment pair or
\* positional parameter, else the value of the shared table; and an ASSIGN
\* leaves the collected input and output files as they are.
C29_AssignOverUnitOverTable ==
    /\ []((ephase = "exec" /\ procPos > 1 /\ procedures[procPos - 1].op = "IO_ASSIGN")
          => exec.log[Len(exec.log)].value
             = Executor_resolve_value(AssignContext(procPos - 1), procedures[procPos - 1].val))
    /\ [][(ephase = "exec" /\ procPos <= Len(procedures) /\ procedures[procPos].op = "ASSIGN")
          => (exec'.inputs = exec.inputs /\ exec'.outputs = exec.outputs)]_vars


(***************************************************************************)
(* C30: what one substitution pass leaves as it is                         *)
(***************************************************************************)
\* the positions of a template where the scan finds a variable reference
RECURSIVE MatchStarts(_, _)
MatchStarts(tmpl, i) ==
    IF i > Len(tmpl) THEN {}
    ELSE IF VarMatchAt(tmpl, i).len = 0 THEN MatchStarts(tmpl, i + 1)
    ELSE {i} \cup MatchStarts(tmpl, i + VarMatchAt(tmpl, i).len)

\* the references of a template whose name the context holds
KnownStarts(tmpl, context) ==
    {i \in MatchStarts(tmpl, 1) : VarMatchAt(tmpl, i).key \in DOMAIN context}

\* the positions of a template outside the references the context knows
KeptPositions(tmpl, context) ==
    {p \in 1..Len(tmpl) :
        \A i \in KnownStarts(tmpl, context) : p < i \/ p >= i + VarMatchAt(tmpl, i).len}

\* by how much the known references that end before position p lengthen the text
RECURSIVE ShiftBefore(_, _, _)
ShiftBefore(tmpl, context, p) ==
    LET ended == {i \in KnownStarts(tmpl, context) : i + VarMatchAt(tmpl, i).len <= p}
    IN IF ended = {} THEN 0
       ELSE LET i == CHOOSE j \in ended : \A k \in ended : k <= j
            IN Len(context[VarMatchAt(tmpl, i).key]) - VarMatchAt(tmpl, i).len
               + ShiftBefore(tmpl, context, i)

\* every character outside the known references, so every reference to an
\* unknown name and every command-substitution marker, stands in the result
\* where the values of the known references before it have moved it
Unguessed(tmpl, context, result) ==
    /\ Len(result) = Len(tmpl) + ShiftBefore(tmpl, context, Len(tmpl) + 1)
    /\ \A p \in KeptPositions(tmpl, context) :
          result[p + ShiftBefore(tmpl, context, p)] = tmpl[p]

\* C30: the value a procedure resolves to holds every reference to a name
\* the context lacks, and every character of a command substitution that is
\* not a reference to a known name, as the template has them.
C30_UnknownReferenceKept ==
    [][(ephase = "exec" /\ procPos <= Len(procedures))
       => LET proc == procedures[procPos]
          IN IF proc.op = "ASSIGN"
             THEN Unguessed(proc.val, exec.shell_context, exec'.shell_context[proc.name])
             ELSE IF proc.op = "IO_ASSIGN"
             THEN Unguessed(proc.val, exec.shell_context, exec'.log[Len(exec'.log)].value)
             ELSE Unguessed(proc.name, exec.shell_context, exec'.log[Len(exec'.log)].value)]_vars

\* $ENV and $1 are known, ${NONE} is not, and $(ls ...) is not run
C30_Witness ==
    /\ ephase = "exec"
    /\ exec.log # <<>>
    /\ exec.log[Len(exec.log)].op = "IO_ASSIGN"
    /\ exec.log[Len(exec.log)].tmpl = Chars("$ENV/${NONE}$(ls $1)")
    /\ exec.log[Len(exec.log)].value = Chars("sh/${NONE}$(ls /q)")
    /\ Chars("NONE") \notin DOMAIN exec.shell_context
    /\ exec.log[Len(exec.log)].tmpl \in exec.unresolved


(***************************************************************************)
(* C31: the parent an arc line is replaced for                             *)
(***************************************************************************)
\* the declaration of the unit whose body directly holds line i
Innermost(i) == CHOOSE u \in Enclosing(i) : \A v \in Enclosing(i) : v <= u

\* C31: with a graph, the parent path the filter uses at an arc line it
\* meets outside a skipped unit, and records as replaced, is the path of the
\* unit whose body directly holds the line.
C31_ArcParentIsContainingUnit ==
    (fphase = "lines" /\ fpos > 1 /\ withGraph /\ IsArcLine(fpos - 1)
        /\ ~skip /\ stack # <<>> /\ Enclosing(fpos - 1) # {})
    => /\ StackPath(stack) = FullPath(Innermost(fpos - 1))
       /\ FullPath(Innermost(fpos - 1)) \in ar_written_map


(***************************************************************************)
(* C32: the relation cell, three tokens at a time                          *)
(***************************************************************************)
\* the non-empty tokens of a relation cell
Tokens(cells) == SelectSeq([i \in 1..Len(cells) |-> Strip(cells[i], " ")], LAMBDA c : c # <<>>)

\* the graph g with the relations of the first n groups of three tokens
\* under a parent: the nodes parent/from and parent/to and the edge between
\* them for each group with no "-" in its first two slots
RECURSIVE WithGroups(_, _, _, _)
WithGroups(g, parent, tokens, n) ==
    IF n = 0 THEN g
    ELSE LET before == WithGroups(g, parent, tokens, n - 1)
             from_path == ReplaceSlashes(RStrip(parent, "/") \o <<"/">> \o tokens[3 * n - 2])
             to_path == ReplaceSlashes(RStrip(parent, "/") \o <<"/">> \o tokens[3 * n - 1])
         IN IF tokens[3 * n - 2] = <<"-">> \/ tokens[3 * n - 1] = <<"-">> THEN before
            ELSE [nodes |-> AddNode(AddNode(before.nodes, from_path), to_path),
                  edges |-> AddEdge(before.edges, from_path, to_path)]

\* the graph a line is to give when the first n groups of its cell count:
\* the node of a header, then the groups under the most recent header
LineGraph(ln, n) ==
    LET parent == IF ln.hdr THEN pre_normalize(ln.path, base) ELSE curParent
        g == [nodes |-> IF ln.hdr /\ Strip(parent, "/") # <<>> THEN AddNode(gNodes, parent) ELSE gNodes,
              edges |-> gEdges]
    IN IF parent = <<>> THEN g ELSE WithGroups(g, parent, Tokens(ln.cells), n)

ParsedGraph(ln) == ParsedLine([nodes |-> gNodes, edges |-> gEdges], curParent, ln, base).g

Normalized(p) ==
    /\ p # <<>>
    /\ p[1] = "/"
    /\ \A i \in 1..(Len(p) - 1) : ~(p[i] = "/" /\ p[i + 1] = "/")
    /\ StripQualifier(p) = p

\* C33: every node of the graph pre_parse_graph builds and the target
\* pre_normalize hands to pre_compute_need are normalized paths.
C33_NodesAndTargetNormalized ==
    /\ \A n \in Range(gNodes) : Normalized(n)
    /\ rphase = "need" => Normalized(target)


(***************************************************************************)
(* C34: the remote files of a run                                          *)
(***************************************************************************)
\* the commands of a run whose output file is on the remote host at the end
\* of the trace: the command wrote its file and no later rm command succeeded
RemoteFilesLeft(tr) ==
    {i \in 1..Len(tr) :
        /\ tr[i].ev = "exec" /\ tr[i].what # "rm" /\ tr[i].status = 0
        /\ \A j \in (i + 1)..Len(tr) : ~(tr[j].ev = "exec" /\ tr[j].what = "rm" /\ tr[j].status = 0)}

\* C34: when a run has ended, with a result or with an error, every remote
\* file its commands wrote has been removed.
C34_NoRemoteFileLeft == pc = "done" => RemoteFilesLeft(trace) = {}


(***************************************************************************)
(* C35: the result files of a run and what it reports                      *)
(***************************************************************************)
\* the result files the run has written in full
ResultsWritten(tr) == {tr[i].what : i \in {k \in 1..Len(tr) : tr[k].ev = "write" /\ tr[k].status = 0}}

\* C35: a run that ends with an error has written none of its result files,
\* and a run that has written a result file ends with the success notice.
C35_ErrorMeansNoResultWritten ==
    pc = "done" =>
        /\ reported.kind = "error" => ResultsWritten(trace) = {}
        /\ ResultsWritten(trace) # {} => reported.kind = "info"


(***************************************************************************)
(* C36: the tag of a script without I/O                                    *)
(***************************************************************************)
\* the script of the record was replayed and declares no file at all
DeclaresNoIO(rec) ==
    /\ rec.resource \in DOMAIN shell_cache
    /\ \A k \in 1..Len(shell_cache[rec.resource]) : shell_cache[rec.resource][k].op # "IO_ASSIGN"

\* C36: a record carries the 'no I/O declared' tag of the shell analysis only
\* when the procedure list of its script holds no IO_ASSIGN.
C36_NoIOTagMeansNothingDeclared ==
    \A k \in 1..Len(anl_records) :
        anl_records[k].source_tag = "shell analysis (no IO)" => DeclaresNoIO(anl_records[k])


(***************************************************************************)
(* C37: the arc lines synthesized for one parent                           *)
(***************************************************************************)
\* C37: every arc line synthesized for a parent joins two different direct
\* children of the parent that are in the need-set, and no pair of names is
\* emitted twice, whatever cycles the graph has.
C37_ArcsJoinDistinctRetainedChildren ==
    ArcsDone =>
        \A k \in 1..Len(arLines) :
            /\ arLines[k][1] # arLines[k][2]
            /\ arLines[k][1] \in HierarchyChildren(NormalizedNeed(need), arParent)
            /\ arLines[k][2] \in HierarchyChildren(NormalizedNeed(need), arParent)
            /\ SiblingPath(arParent, arLines[k][1]) \in need
            /\ SiblingPath(arParent, arLines[k][2]) \in need
            /\ \A j \in 1..Len(arLines) : arLines[j] = arLines[k] => j = k

C37_Witness ==
    /\ ArcsDone
    /\ arParent = pG
    /\ gEdges = <<<<pGB, pGC>>, <<pGC, pGB>>>>
    /\ Range(arLines) = {<<nB, nC>>, <<nC, nB>>}
    /\ Len(arLines) = 2


(***************************************************************************)
(* C38: the result cache and a failed analysis                             *)
(***************************************************************************)
\* the entry of the cache under the key of the run, as Called records it
StoredNow ==
    IF CacheKey(gui_vars) \in DOMAIN ANALYSIS_CACHE
    THEN <<ANALYSIS_CACHE[CacheKey(gui_vars)]>> ELSE <<>>

\* analyze_ajs_jobs was called and has raised: an input is missing or the
\* remote command failed
AnalysisFailed ==
    /\ pc \in {"except", "done"}
    /\ call # <<>>
    /\ \/ raised = ValueError("analysis inputs missing")
       \/ (Len(raised.text) >= 19 /\ SubSeq(raised.text, 1, 19) = Chars("AJS command error: "))

Handlers == {"inout", "dep"}

InitThreads ==
    /\ InitRel /\ base = pRoot /\ IdleArc /\ IdleDep /\ IdleEnv /\ IdleFil
    /\ pc = "idle"
    /\ gui_vars = <<>>
    /\ call = <<>>
    /\ ANALYSIS_CACHE = EmptyDict
    /\ trace = <<>>
    /\ raised = <<>>
    /\ reported = <<>>
    /\ ajs_mapping_list = <<>>
    /\ shell_cache = <<>>
    /\ anl_records = <<>>
    /\ returned = <<>>
    /\ notices = <<>>
    /\ status_var = <<>>
    /\ threads = [h \in Handlers |-> [pc |-> "idle", gui |-> <<>>, got |-> <<>>]]

\* the thread of handler h starts and analyze_ajs_jobs gets to line 464: the
\* dependency handler calls with use_cache=True, the I/O handler with
\* use_cache=False; a hit returns the stored result, a missing input raises
ThreadEnter(h) ==
    /\ threads[h].pc = "idle"
    /\ \E g \in RunMenu :
         /\ g.kind = h
         /\ h = "dep" => ~NoTarget(g.targets)
         /\ threads' = [threads EXCEPT ![h] =
              IF CacheHit(h = "dep", CacheKey(g), ANALYSIS_CACHE)
              THEN [pc |-> "idle", gui |-> g, got |-> <<ANALYSIS_CACHE[CacheKey(g)]>>]
              ELSE IF MissingAnalysisInput(g)
              THEN [pc |-> "idle", gui |-> g, got |-> <<>>]
              ELSE [pc |-> "running", gui |-> g, got |-> <<>>]]
    /\ UNCHANGED <<pc, gui_vars, call, ANALYSIS_CACHE, trace, raised, reported,
                   ajs_mapping_list, shell_cache, anl_records, returned, notices, status_var>>
    /\ UNCHANGED <<relVars, arcVars, depVars, envVars, filVars>>

\* the rest of analyze_ajs_jobs in the thread of handler h: the remote
\* command fails and the call raises, or the records of the unit list are
\* built and stored under the key of the call (line 588)
ThreadFinish(h) ==
    /\ threads[h].pc = "running"
    /\ \E a \in Answers, ml \in UnitListMenu :
         LET g == threads[h].gui
             recs == [i \in 1..Len(ml) |-> FinalRecord(ml[i], g.custom_vars, BuildShellCache(ml))]
         IN IF a.status # 0
            THEN /\ threads' = [threads EXCEPT ![h] = [pc |-> "idle", gui |-> g, got |-> <<>>]]
                 /\ UNCHANGED ANALYSIS_CACHE
            ELSE /\ threads' = [threads EXCEPT ![h] = [pc |-> "idle", gui |-> g, got |-> <<recs>>]]
                 /\ ANALYSIS_CACHE' = DictSet(ANALYSIS_CACHE, CacheKey(g), recs)
    /\ UNCHANGED <<pc, gui_vars, call, trace, raised, reported,
                   ajs_mapping_list, shell_cache, anl_records, returned, notices, status_var>>
    /\ UNCHANGED <<relVars, arcVars, depVars, envVars, filVars>>

NextThreads == \E h \in Handlers : ThreadEnter(h) \/ ThreadFinish(h)

SpecThreads == InitThreads /\ [][NextThreads]_vars

(***************************************************************************)
(* C40: who replaces an entry of the cache                                 *)
(***************************************************************************)
\* the thread of handler h stores a result over an entry that is there
Replaces(h) ==
    /\ threads[h].pc = "running"
    /\ threads'[h] # threads[h]
    /\ CacheKey(threads[h].gui) \in DOMAIN ANALYSIS_CACHE
    /\ ANALYSIS_CACHE'[CacheKey(threads[h].gui)] # ANALYSIS_CACHE[CacheKey(threads[h].gui)]

\* C40: however the threads interleave, a call that replaces an entry of the
\* cache is a call with use_cache=False; a call with use_cache=True never
\* stores over an entry that is there when it finishes.
C40_OnlyBypassReplaces ==
    [][\A h \in Handlers : Replaces(h) => h # "dep"]_vars


(***************************************************************************)
(* C39: the shared tables and the replay of a unit                         *)
(***************************************************************************)
\* the unit replayed from the tables as they are now, by execute() as a whole
ReplayedAfresh ==
    Execute(procedures,
            get_var_dict_for_env(master_var_dict, scan.case_vars_order, scan.case_patterns,
                                 initial_vars, ajs_record.env),
            ajs_record)

====
